---- MODULE Spec2Model ----
(***************************************************************************)
(* TaskRabbitScanner: the extraction / pagination engine.                  *)
(*                                                                         *)
(*   taskrabbit_parser.py     TaskRabbitParser (validators, walk, resolver)*)
(*   taskrabbit/scraper.py    the same helpers extracted as functions      *)
(*                                                                         *)
(* Strings are sequences of one-character strings, so that the validators  *)
(* are computed character by character as the Python code computes them.   *)
(***************************************************************************)
EXTENDS Integers, Sequences, FiniteSets, TLC

VARIABLES
    \* ---- field validator harness (is_valid_person_name / is_potential_name)
    text,          \* the candidate string handed to the validators
    validRes,      \* is_valid_person_name(text): "none", "True" or "False"
    potRes,        \* is_potential_name(text):    "none", "True" or "False"
    \* ---- the pagination control of the loaded document, and the resolver
    muiLists,      \* find_elements result of each MUI selector, in order
    linkLists,     \* find_elements result of each link selector, in order
    textLists,     \* find_elements result of each text selector, in order
    max_pages,     \* ctx.max_pages; 0 stands for None (both are falsy)
    pagesS,        \* <<r>> once scraper.get_available_page_numbers returned r
    pagesP,        \* <<r>> once TaskRabbitParser.get_available_page_numbers did
    \* ---- the loaded document and the record collector
    found,         \* containers returned by the primary and fallback locators
    docPage,       \* the page the document shows (its selected page button)
    urlPage,       \* the page parameter of driver.current_url, or NoNum
    tasker_cards,  \* the containers the collector processed on its last run
    taskers,       \* <<r>> once extract_taskers_from_current_page returned r
    \* ---- the page walker, extract_tasker_data
    nav,           \* how the last navigate_to_page_number call returned
    wpc,           \* position in extract_tasker_data / navigate_to_page_number
    available_pages, \* the resolved page list
    idx,           \* index in available_pages of the page being processed
    all_taskers,   \* the accumulator
    tries,         \* clickable buttons already tried in the current branch
    trace,         \* history: what each finished iteration did
    \* ---- the category runner, run_all_categories
    entry,         \* "cli" (taskrabbit/cli.py) or "parser" (taskrabbit_parser.py)
    rpc,           \* position in run_all_categories: "idle", "loop", "returned"
    cat,           \* number of categories whose loop iteration has finished
    results,       \* the mapping built by the loop: category -> None or path
    saved          \* the paths save_to_csv was called on

nameVars == <<text, validRes, potRes>>
docVars == <<muiLists, linkLists, textLists, max_pages>>
pageVars == <<muiLists, linkLists, textLists, max_pages, pagesS, pagesP>>
viewVars == <<found, docPage, urlPage>>
collVars == <<found, docPage, urlPage, tasker_cards, taskers>>
walkVars == <<nav, wpc, available_pages, idx, all_taskers, tries, trace>>
runVars == <<entry, rpc, cat, results, saved>>
vars == <<text, validRes, potRes,
          muiLists, linkLists, textLists, max_pages, pagesS, pagesP,
          found, docPage, urlPage, tasker_cards, taskers,
          nav, wpc, available_pages, idx, all_taskers, tries, trace,
          entry, rpc, cat, results, saved>>

(***************************************************************************)
(* Characters                                                              *)
(***************************************************************************)
UpperSeq == <<"A","B","C","D","E","F","G","H","I","J","K","L","M",
              "N","O","P","Q","R","S","T","U","V","W","X","Y","Z">>
LowerSeq == <<"a","b","c","d","e","f","g","h","i","j","k","l","m",
              "n","o","p","q","r","s","t","u","v","w","x","y","z">>
DigitChars == {"0","1","2","3","4","5","6","7","8","9"}
UpperChars == {UpperSeq[i] : i \in 1..26}
LowerChars == {LowerSeq[i] : i \in 1..26}
\* str.split() / str.strip() separators that occur in the inputs
WhiteChars == {" ", "\n"}

\* str.isupper / str.isalpha / str.isdigit on one ASCII character
IsUpper(c) == c \in UpperChars
IsLower(c) == c \in LowerChars
IsAlpha(c) == IsUpper(c) \/ IsLower(c)
IsDigit(c) == c \in DigitChars

\* str.lower() on one character
LowerChar(c) ==
    IF c \in UpperChars
    THEN LowerSeq[CHOOSE i \in 1..26 : UpperSeq[i] = c]
    ELSE c

\* str.lower()
Lower(s) == [i \in 1..Len(s) |-> LowerChar(s[i])]

\* c in s
HasChar(s, c) == \E i \in 1..Len(s) : s[i] = c

\* w in s, for a non-empty word w
HasSubstr(s, w) ==
    \E i \in 1..(Len(s) - Len(w) + 1) : SubSeq(s, i, i + Len(w) - 1) = w

\* str.endswith('.')
EndsWithDot(s) == Len(s) > 0 /\ s[Len(s)] = "."

\* str.isalpha() on a whole (non-empty) string
IsAlphaStr(s) == Len(s) > 0 /\ \A i \in 1..Len(s) : IsAlpha(s[i])

\* str.split(): the maximal runs of non-whitespace characters, in order
RECURSIVE SplitFrom(_, _, _)
SplitFrom(s, i, cur) ==
    IF i > Len(s)
    THEN IF cur = <<>> THEN <<>> ELSE <<cur>>
    ELSE IF s[i] \in WhiteChars
         THEN IF cur = <<>>
              THEN SplitFrom(s, i + 1, <<>>)
              ELSE <<cur>> \o SplitFrom(s, i + 1, <<>>)
         ELSE SplitFrom(s, i + 1, Append(cur, s[i]))
Split(s) == SplitFrom(s, 1, <<>>)

\* str.strip()
RECURSIVE LStrip(_)
LStrip(s) == IF s # <<>> /\ s[1] \in WhiteChars THEN LStrip(Tail(s)) ELSE s
RECURSIVE RStrip(_)
RStrip(s) ==
    IF s # <<>> /\ s[Len(s)] \in WhiteChars
    THEN RStrip(SubSeq(s, 1, Len(s) - 1))
    ELSE s
Strip(s) == RStrip(LStrip(s))

(***************************************************************************)
(* Field validator                                                         *)
(***************************************************************************)
\* the punctuation refused by the strict check (taskrabbit_parser.py:848);
\* the grave accent, the last character of that list, cannot be written in a
\* string here and occurs in no input
SpecialChars == {"!","@","#","$","%","^","&","*","(",")","_","+","=","[","]",
                 "{","}","|",";",":",",","<",">","?","/","~"}

\* the longest accepted name (taskrabbit_parser.py:852, :873)
NAME_MAX_LEN == 50
\* the shortest accepted name (taskrabbit_parser.py:840, :873)
NAME_MIN_LEN == 3

\* the words is_potential_name refuses (taskrabbit_parser.py:885)
NonNameWords ==
    { <<"r","e","v","i","e","w">>, <<"t","a","s","k">>, <<"h","o","u","r">>,
      <<"$">>, <<"/","h","r">>, <<"r","e","a","d">>, <<"m","o","r","e">>,
      <<"s","e","l","e","c","t">>, <<"c","o","n","t","i","n","u","e">> }

\* word-count window of is_potential_name (taskrabbit_parser.py:890)
MIN_WORDS == 2
MAX_WORDS == 4

\* TaskRabbitParser.is_potential_name: the loose check
is_potential_name(t) ==
    IF Len(t) < NAME_MIN_LEN \/ Len(t) > NAME_MAX_LEN THEN FALSE
    ELSE IF ~EndsWithDot(t) THEN FALSE
    ELSE IF ~HasChar(t, " ") THEN FALSE
    ELSE IF \E w \in NonNameWords : HasSubstr(Lower(t), w) THEN FALSE
    ELSE LET word_count == Len(Split(t))
         IN  ~(word_count < MIN_WORDS \/ word_count > MAX_WORDS)

\* the strict check, were the initial required to be a capital letter
is_valid_person_name_capital_initial(name) ==
    IF Len(name) < NAME_MIN_LEN THEN FALSE
    ELSE IF ~HasChar(name, " ") \/ ~EndsWithDot(name) THEN FALSE
    ELSE IF \E i \in 1..Len(name) :
                /\ name[i] # "."
                /\ (IsDigit(name[i]) \/ name[i] \in SpecialChars)
         THEN FALSE
    ELSE IF Len(name) > NAME_MAX_LEN THEN FALSE
    ELSE LET parts == Split(name)
             last  == parts[Len(parts)]
         IN  IF Len(parts) < 2 THEN FALSE
             ELSE IF ~(Len(last) = 2 /\ IsUpper(last[1]) /\ last[2] = ".")
                  THEN FALSE
             ELSE \A k \in 1..(Len(parts) - 1) : IsAlphaStr(parts[k])

\* the strict check, were it to apply the loose rules
is_valid_person_name_as_loose(name) == is_potential_name(name)

\* TaskRabbitParser.is_valid_person_name: the strict check
is_valid_person_name(name) ==
    IF Len(name) < NAME_MIN_LEN THEN FALSE
    ELSE IF ~HasChar(name, " ") \/ ~EndsWithDot(name) THEN FALSE
    ELSE IF \E i \in 1..Len(name) :
                /\ name[i] # "."
                /\ (IsDigit(name[i]) \/ name[i] \in SpecialChars)
         THEN FALSE
    ELSE IF Len(name) > NAME_MAX_LEN THEN FALSE
    ELSE LET parts == Split(name)
             last  == parts[Len(parts)]
         IN  IF Len(parts) < 2 THEN FALSE
             ELSE IF ~(Len(last) = 2 /\ IsAlpha(last[1]) /\ last[2] = ".")
                  THEN FALSE
             ELSE \A k \in 1..(Len(parts) - 1) : IsAlphaStr(parts[k])

(***************************************************************************)
(* Identity extraction from one record container (card)                    *)
(*                                                                         *)
(* A card is a record                                                      *)
(*   nameElems   for each NAME_SELECTORS_CARD selector, in order, the      *)
(*               elements card.find_elements returns: records             *)
(*               [state, text] with state "shown", "hidden" or "stale"     *)
(*   text        card.text, the rendered visible text                      *)
(*   textElems   the texts of the elements matched by .//*[text()]         *)
(*   html        card.get_attribute('innerHTML')                           *)
(*   staleAt     the extraction block before which the container itself    *)
(*               goes stale, every later query and read of it raising:     *)
(*               one of BLOCKS, "never" included                           *)
(***************************************************************************)
\* the placeholder of scraper.py:105
NAME_NOT_FOUND ==
    <<"N","a","m","e"," ","n","o","t"," ","f","o","u","n","d">>

\* \w of the re module, on ASCII
IsWordChar(c) == IsAlpha(c) \/ IsDigit(c) \/ c = "_"

\* the last index of the longest run of characters of class P that starts
\* at index i of t (i - 1 when t[i] is not of class P)
RunEnd(t, i, P(_)) ==
    CHOOSE j \in (i - 1)..Len(t) :
        /\ \A k \in i..j : P(t[k])
        /\ (j < Len(t) => ~P(t[j + 1]))

\* one alternative of  \b[A-Z]x+ [A-Z]\.  tried at index i, x being [a-z] in
\* the first alternative and [A-Z] in the second: the index of the closing
\* period, or 0 when the alternative does not match at i
NameAltAt(t, i, P(_)) ==
    IF /\ IsUpper(t[i])
       /\ (i = 1 \/ ~IsWordChar(t[i - 1]))
    THEN LET j == RunEnd(t, i + 1, P)
         IN  IF /\ j >= i + 1
                /\ j + 3 <= Len(t)
                /\ t[j + 1] = " "
                /\ IsUpper(t[j + 2])
                /\ t[j + 3] = "."
             THEN j + 3 ELSE 0
    ELSE 0

NameEndAt(t, i) ==
    IF NameAltAt(t, i, IsLower) # 0 THEN NameAltAt(t, i, IsLower)
    ELSE NameAltAt(t, i, IsUpper)

\* re.findall(r"\b[A-Z][a-z]+ [A-Z]\.|\b[A-Z][A-Z]+ [A-Z]\.", t): its first
\* match, or <<>> when the list is empty
FirstNamePattern(t) ==
    LET starts == { i \in 1..Len(t) : NameEndAt(t, i) # 0 }
    IN  IF starts = {} THEN <<>>
        ELSE LET i == CHOOSE x \in starts : \A y \in starts : x <= y
             IN  SubSeq(t, i, NameEndAt(t, i))

IsWhite(c) == c \in WhiteChars

\* the rest of one alternative of the markup pattern after a word that ends
\* at index p:  (?:\s+word)*\s+[A-Z]\.<  ; the index of the period, or 0
RECURSIVE HtmlNameTail(_, _, _)
HtmlNameTail(t, p, upperOnly) ==
    LET q == RunEnd(t, p + 1, IsWhite)
    IN  IF q < p + 1 THEN 0
        ELSE IF /\ q + 3 <= Len(t)
                /\ IsUpper(t[q + 1]) /\ t[q + 2] = "." /\ t[q + 3] = "<"
             THEN q + 2
        ELSE IF /\ q + 1 <= Len(t)
                /\ (IF upperOnly THEN IsUpper(t[q + 1]) ELSE IsAlpha(t[q + 1]))
             THEN LET w == IF upperOnly THEN RunEnd(t, q + 2, IsUpper)
                                        ELSE RunEnd(t, q + 2, IsLower)
                  IN  IF w >= q + 2 THEN HtmlNameTail(t, w, upperOnly) ELSE 0
        ELSE 0

\* one alternative tried at the ">" of index i: the index of the period that
\* ends the captured group, or 0
HtmlNameAltAt(t, i, upperOnly) ==
    IF /\ t[i] = ">"
       /\ i + 1 <= Len(t)
       /\ (IF upperOnly THEN IsUpper(t[i + 1]) ELSE IsAlpha(t[i + 1]))
    THEN LET w == IF upperOnly THEN RunEnd(t, i + 2, IsUpper)
                               ELSE RunEnd(t, i + 2, IsLower)
         IN  IF w >= i + 2 THEN HtmlNameTail(t, w, upperOnly) ELSE 0
    ELSE 0

HtmlNameEndAt(t, i) ==
    IF HtmlNameAltAt(t, i, FALSE) # 0 THEN HtmlNameAltAt(t, i, FALSE)
    ELSE HtmlNameAltAt(t, i, TRUE)

\* re.findall(r">([A-Za-z][a-z]+(?:\s+[A-Za-z][a-z]+)*\s+[A-Z]\.)<|
\*              >([A-Z][A-Z]+(?:\s+[A-Z][A-Z]+)*\s+[A-Z]\.)<", t) from index i:
\* the captured groups of the non-overlapping matches, left to right
RECURSIVE HtmlNamePatterns(_, _)
HtmlNamePatterns(t, i) ==
    IF i > Len(t) THEN <<>>
    ELSE IF HtmlNameEndAt(t, i) # 0
         THEN <<SubSeq(t, i + 1, HtmlNameEndAt(t, i))>>
                 \o HtmlNamePatterns(t, HtmlNameEndAt(t, i) + 2)
         ELSE HtmlNamePatterns(t, i + 1)

\* "for x in candidates: if ctx.is_potential_name(x): name = x; break"
RECURSIVE FirstPotential(_)
FirstPotential(cands) ==
    IF cands = <<>> THEN NAME_NOT_FOUND
    ELSE IF is_potential_name(Head(cands)) THEN Head(cands)
    ELSE FirstPotential(Tail(cands))

\* the loop over the elements of one structural selector (scraper.py:109-114)
RECURSIVE ScanNameElems(_)
ScanNameElems(elems) ==
    IF elems = <<>> THEN NAME_NOT_FOUND
    ELSE LET e == Head(elems)
         IN  IF e.state = "stale" THEN NAME_NOT_FOUND
             ELSE IF e.state = "shown" /\ is_potential_name(Strip(e.text))
                  THEN Strip(e.text)
             ELSE ScanNameElems(Tail(elems))

\* the loop over NAME_SELECTORS_CARD (scraper.py:106-118)
RECURSIVE NameFromSelectors(_)
NameFromSelectors(lists) ==
    IF lists = <<>> THEN NAME_NOT_FOUND
    ELSE IF ScanNameElems(Head(lists)) # NAME_NOT_FOUND
         THEN ScanNameElems(Head(lists))
    ELSE NameFromSelectors(Tail(lists))

\* the aggressive fallback (scraper.py:121-144)
NameFromFallback(card) ==
    IF FirstNamePattern(card.text) # <<>>
    THEN FirstNamePattern(card.text)
    ELSE IF FirstPotential([k \in 1..Len(card.textElems) |->
                                Strip(card.textElems[k])]) # NAME_NOT_FOUND
         THEN FirstPotential([k \in 1..Len(card.textElems) |->
                                Strip(card.textElems[k])])
    ELSE IF card.html # <<>>
         THEN FirstPotential(HtmlNamePatterns(card.html, 1))
    ELSE NAME_NOT_FOUND

\* the name a card is given before the final validation (scraper.py:105-144)
ExtractName(card) ==
    IF NameFromSelectors(card.nameElems) # NAME_NOT_FOUND
    THEN NameFromSelectors(card.nameElems)
    ELSE NameFromFallback(card)

(***************************************************************************)
(* Rate extraction from one card                                           *)
(*   rateElems   for each RATE_SELECTORS_CARD selector, in order, the      *)
(*               elements found ([state, text] as for the names)           *)
(***************************************************************************)
\* the placeholder of scraper.py:169
RATE_NOT_FOUND ==
    <<"R","a","t","e"," ","n","o","t"," ","f","o","u","n","d">>
PER_HOUR == <<"/","h","r">>
\* a structural rate text must be shorter than this (scraper.py:176)
RATE_TEXT_LIMIT == 20

\* \$\d+(?:\.\d+)?/hr tried at index i: the index of the final "r", or 0
RateEndAt(t, i) ==
    IF t[i] = "$"
    THEN LET d == RunEnd(t, i + 1, IsDigit)
         IN  IF d < i + 1 THEN 0
             ELSE LET f == IF d + 1 <= Len(t) /\ t[d + 1] = "."
                           THEN RunEnd(t, d + 2, IsDigit) ELSE d
                      e == IF f >= d + 2 THEN f ELSE d
                  IN  IF e + 3 <= Len(t) /\ SubSeq(t, e + 1, e + 3) = PER_HOUR
                      THEN e + 3
                      ELSE IF d + 3 <= Len(t) /\ SubSeq(t, d + 1, d + 3) = PER_HOUR
                           THEN d + 3 ELSE 0
    ELSE 0

\* the first match of re.findall(r"\$\d+(?:\.\d+)?/hr", t), or <<>>
FirstRate(t) ==
    LET starts == { i \in 1..Len(t) : RateEndAt(t, i) # 0 }
    IN  IF starts = {} THEN <<>>
        ELSE LET i == CHOOSE x \in starts : \A y \in starts : x <= y
             IN  SubSeq(t, i, RateEndAt(t, i))

\* \$(\d+\.\d+) tried at index i: the index of the last digit, or 0
PriceEndAt(t, i) ==
    IF t[i] = "$"
    THEN LET d == RunEnd(t, i + 1, IsDigit)
         IN  IF d >= i + 1 /\ d + 1 <= Len(t) /\ t[d + 1] = "."
                /\ RunEnd(t, d + 2, IsDigit) >= d + 2
             THEN RunEnd(t, d + 2, IsDigit) ELSE 0
    ELSE 0

\* the first group of re.findall(r"\$(\d+\.\d+)", t), or <<>>
FirstPrice(t) ==
    LET starts == { i \in 1..Len(t) : PriceEndAt(t, i) # 0 }
    IN  IF starts = {} THEN <<>>
        ELSE LET i == CHOOSE x \in starts : \A y \in starts : x <= y
             IN  SubSeq(t, i + 1, PriceEndAt(t, i))

\* the loop over the elements of one structural rate selector
RECURSIVE ScanRateElems(_)
ScanRateElems(elems) ==
    IF elems = <<>> THEN RATE_NOT_FOUND
    ELSE LET e == Head(elems)
             rate_text == Strip(e.text)
         IN  IF e.state = "stale" THEN RATE_NOT_FOUND
             ELSE IF /\ e.state = "shown"
                     /\ HasChar(rate_text, "$")
                     /\ HasSubstr(rate_text, PER_HOUR)
                     /\ Len(rate_text) < RATE_TEXT_LIMIT
                     /\ FirstRate(rate_text) # <<>>
                  THEN rate_text
             ELSE ScanRateElems(Tail(elems))

\* the loop over RATE_SELECTORS_CARD (scraper.py:170-183)
RECURSIVE RateFromSelectors(_)
RateFromSelectors(lists) ==
    IF lists = <<>> THEN RATE_NOT_FOUND
    ELSE IF ScanRateElems(Head(lists)) # RATE_NOT_FOUND
         THEN ScanRateElems(Head(lists))
    ELSE RateFromSelectors(Tail(lists))

\* the text and markup fallbacks (scraper.py:185-202)
RateFromFallback(card) ==
    IF FirstRate(card.text) # <<>> THEN FirstRate(card.text)
    ELSE IF card.html = <<>> THEN RATE_NOT_FOUND
    ELSE IF FirstRate(card.html) # <<>> THEN FirstRate(card.html)
    ELSE IF FirstPrice(card.html) # <<>>
         THEN <<"$">> \o FirstPrice(card.html) \o PER_HOUR
    ELSE RATE_NOT_FOUND

ExtractRate(card) ==
    IF RateFromSelectors(card.rateElems) # RATE_NOT_FOUND
    THEN RateFromSelectors(card.rateElems)
    ELSE RateFromFallback(card)

\* str.endswith('/hr')
EndsWithPerHour(t) ==
    Len(t) >= 3 /\ SubSeq(t, Len(t) - 2, Len(t)) = PER_HOUR

\* str.replace('/hr', ''): every occurrence is removed, left to right
RECURSIVE RemovePerHour(_)
RemovePerHour(t) ==
    IF t = <<>> THEN <<>>
    ELSE IF Len(t) >= 3 /\ SubSeq(t, 1, 3) = PER_HOUR
         THEN RemovePerHour(SubSeq(t, 4, Len(t)))
    ELSE <<Head(t)>> \o RemovePerHour(Tail(t))

\* scraper.py:350-353
CleanRate(rate) ==
    IF rate # RATE_NOT_FOUND /\ EndsWithPerHour(rate)
    THEN RemovePerHour(rate) ELSE rate

(***************************************************************************)
(* Overall task count of one card                                          *)
(***************************************************************************)
\* the placeholder of scraper.py:241
NOT_FOUND == <<"N","o","t"," ","f","o","u","n","d">>
\* the value stored when the markup was searched in vain (scraper.py:272)
NONE_TEXT == <<"N","o","n","e">>

\* the wording of the five overall_patterns, in order (scraper.py:247-253);
\* each pattern is (\d+)\s+ followed by its wording
OVERALL_PATTERNS ==
    << <<"A","s","s","e","m","b","l","y"," ","t","a","s","k","s"," ","o","v","e","r","a","l","l">>,
       <<"t","a","s","k","s"," ","o","v","e","r","a","l","l">>,
       <<"o","v","e","r","a","l","l"," ","t","a","s","k","s">>,
       <<"t","o","t","a","l"," ","t","a","s","k","s">>,
       <<"t","a","s","k","s"," ","c","o","m","p","l","e","t","e","d">> >>

\* (\d+)\s+words with re.IGNORECASE tried at index i: group 1, or <<>>
CountAt(t, i, words) ==
    IF IsDigit(t[i])
    THEN LET d == RunEnd(t, i, IsDigit)
             w == RunEnd(t, d + 1, IsWhite)
         IN  IF /\ w >= d + 1
                /\ w + Len(words) <= Len(t)
                /\ Lower(SubSeq(t, w + 1, w + Len(words))) = Lower(words)
             THEN SubSeq(t, i, d) ELSE <<>>
    ELSE <<>>

\* re.search(pattern, t, re.IGNORECASE).group(1), or <<>> without a match
SearchCount(t, words) ==
    LET starts == { i \in 1..Len(t) : CountAt(t, i, words) # <<>> }
    IN  IF starts = {} THEN <<>>
        ELSE CountAt(t, CHOOSE x \in starts : \A y \in starts : x <= y, words)

\* the loop over overall_patterns from pattern k on: the group of the first
\* pattern that matches t, or <<>> (scraper.py:254-258, 266-270)
RECURSIVE FirstOverallFrom(_, _)
FirstOverallFrom(t, k) ==
    IF k > Len(OVERALL_PATTERNS) THEN <<>>
    ELSE IF SearchCount(t, OVERALL_PATTERNS[k]) # <<>>
         THEN SearchCount(t, OVERALL_PATTERNS[k])
    ELSE FirstOverallFrom(t, k + 1)

\* the search, were the match that stands first in t taken, whatever its
\* pattern
FirstOverall_leftmost_match(t) ==
    LET hits == { i \in 1..Len(t) :
                    \E k \in 1..Len(OVERALL_PATTERNS) :
                        CountAt(t, i, OVERALL_PATTERNS[k]) # <<>> }
    IN  IF hits = {} THEN <<>>
        ELSE LET i == CHOOSE x \in hits : \A y \in hits : x <= y
             IN  SubSeq(t, i, RunEnd(t, i, IsDigit))

FirstOverall(t) == FirstOverallFrom(t, 1)

\* overall_tasks of a card, were an absent count reported as 0
ExtractOverall_absent_is_zero(card) ==
    IF FirstOverall(card.text) # <<>> THEN FirstOverall(card.text)
    ELSE IF card.html = <<>> THEN <<"0">>
    ELSE IF FirstOverall(card.html) # <<>> THEN FirstOverall(card.html)
    ELSE <<"0">>

\* overall_tasks of a card (scraper.py:241-275): the visible text, then the
\* markup if there is any
ExtractOverall(card) ==
    IF FirstOverall(card.text) # <<>> THEN FirstOverall(card.text)
    ELSE IF card.html = <<>> THEN NOT_FOUND
    ELSE IF FirstOverall(card.html) # <<>> THEN FirstOverall(card.html)
    ELSE NONE_TEXT

\* the cell csv.DictWriter writes for a string value (taskrabbit_parser.py:
\* 1942-1948): quoted, quotes doubled, when it holds a comma, a quote or a
\* line break
RECURSIVE DoubleQuotes(_)
DoubleQuotes(v) ==
    IF v = <<>> THEN <<>>
    ELSE IF Head(v) = "\"" THEN <<"\"", "\"">> \o DoubleQuotes(Tail(v))
    ELSE <<Head(v)>> \o DoubleQuotes(Tail(v))

CsvCell(v) ==
    IF HasChar(v, ",") \/ HasChar(v, "\"") \/ HasChar(v, "\n")
    THEN <<"\"">> \o DoubleQuotes(v) \o <<"\"">>
    ELSE v

(***************************************************************************)
(* The two flags of one card                                               *)
(*   minElems    for each of the five minimum_selectors, in order, the     *)
(*               elements found                                            *)
(*   eliteElems  the same for the five elite_selectors                     *)
(***************************************************************************)
\* the five minimum_patterns (scraper.py:282-288): the literal parts of each,
\* which \s* separates; they are matched with re.IGNORECASE
MINIMUM_PATTERNS ==
    << << <<"2">>, <<"h","o","u","r">>, <<"m","i","n","i","m","u","m">> >>,
       << <<"2">>, <<"h","r">>, <<"m","i","n","i","m","u","m">> >>,
       << <<"2">>, <<"h","o","u","r">>, <<"m","i","n">> >>,
       << <<"m","i","n","i","m","u","m">>, <<"2">>, <<"h","o","u","r">> >>,
       << <<"m","i","n">>, <<"2">>, <<"h","r">> >> >>

\* the three elite_patterns (scraper.py:321), each between two \b
ELITE_PATTERNS ==
    << <<"E","l","i","t","e">>, <<"E","L","I","T","E">>,
       <<"e","l","i","t","e">> >>

\* the literal parts, separated by \s*, match t at index i, letters compared
\* without case
RECURSIVE PartsAt(_, _, _)
PartsAt(t, i, parts) ==
    IF parts = <<>> THEN TRUE
    ELSE LET w == Head(parts)
         IN  IF /\ i + Len(w) - 1 <= Len(t)
                /\ Lower(SubSeq(t, i, i + Len(w) - 1)) = w
             THEN PartsAt(t, RunEnd(t, i + Len(w), IsWhite) + 1, Tail(parts))
             ELSE FALSE

\* re.search(pattern, t, re.IGNORECASE) for one of the minimum_patterns
SearchParts(t, parts) == \E i \in 1..Len(t) : PartsAt(t, i, parts)

\* re.search(r"\bword\b", t)
SearchWord(t, word) ==
    \E i \in 1..Len(t) :
        /\ i + Len(word) - 1 <= Len(t)
        /\ SubSeq(t, i, i + Len(word) - 1) = word
        /\ (i = 1 \/ ~IsWordChar(t[i - 1]))
        /\ (i + Len(word) - 1 = Len(t) \/ ~IsWordChar(t[i + Len(word)]))

\* "elements and any(elem.is_displayed() for elem in elements)": "yes", "no",
\* or "raise" when a stale element is asked before a displayed one is met
RECURSIVE AnyDisplayed(_)
AnyDisplayed(elems) ==
    IF elems = <<>> THEN "no"
    ELSE IF Head(elems).state = "stale" THEN "raise"
    ELSE IF Head(elems).state = "shown" THEN "yes"
    ELSE AnyDisplayed(Tail(elems))

\* the loop over the selectors of a flag (scraper.py:301-308, 339-346): an
\* exception passes on to the next selector
RECURSIVE FlagFromSelectors(_)
FlagFromSelectors(lists) ==
    IF lists = <<>> THEN FALSE
    ELSE IF AnyDisplayed(Head(lists)) = "yes" THEN TRUE
    ELSE FlagFromSelectors(Tail(lists))

\* two_hour_minimum of a card (scraper.py:278-310)
TwoHourMinimum(card) ==
    IF \E k \in 1..Len(MINIMUM_PATTERNS) :
           SearchParts(card.text, MINIMUM_PATTERNS[k]) THEN TRUE
    ELSE IF \E k \in 1..Len(MINIMUM_PATTERNS) :
           SearchParts(card.html, MINIMUM_PATTERNS[k]) THEN TRUE
    ELSE FlagFromSelectors(card.minElems)

\* elite_status of a card (scraper.py:312-348)
EliteStatus(card) ==
    IF \E k \in 1..Len(ELITE_PATTERNS) :
           SearchWord(card.text, ELITE_PATTERNS[k]) THEN TRUE
    ELSE IF \E k \in 1..Len(ELITE_PATTERNS) :
           SearchWord(card.html, ELITE_PATTERNS[k]) THEN TRUE
    ELSE FlagFromSelectors(card.eliteElems)

(***************************************************************************)
(* Record collector: extract_taskers_from_current_page                     *)
(*                                                                         *)
(* The document shows, for the primary locator and the four fallback       *)
(* locators in order, the list of containers driver.find_elements returns. *)
(***************************************************************************)
\* "Limit to 15 taskers per page" (scraper.py:96)
PER_PAGE_CAP == 15

\* the cascade, were every locator consulted and the last non-empty one kept
DiscoverCards_last_nonempty(locators) ==
    IF \A k \in 1..Len(locators) : locators[k] = <<>> THEN <<>>
    ELSE locators[CHOOSE k \in 1..Len(locators) :
                    /\ locators[k] # <<>>
                    /\ \A j \in (k + 1)..Len(locators) : locators[j] = <<>>]

\* the first locator, primary then fallbacks, that returns a non-empty list
\* (scraper.py:71-93)
RECURSIVE DiscoverCards(_)
DiscoverCards(locators) ==
    IF locators = <<>> THEN <<>>
    ELSE IF Head(locators) # <<>> THEN Head(locators)
    ELSE DiscoverCards(Tail(locators))

\* the containers that are processed, were the cap off by one
CapCards_off_by_one(cards) ==
    IF Len(cards) > PER_PAGE_CAP + 1
    THEN SubSeq(cards, 1, PER_PAGE_CAP + 1) ELSE cards

\* tasker_cards[:15] (scraper.py:96-98)
CapCards(cards) ==
    IF Len(cards) > PER_PAGE_CAP THEN SubSeq(cards, 1, PER_PAGE_CAP) ELSE cards

\* what a stale container gives: every find_elements, text and
\* get_attribute raises, and every extraction block catches it
Gone(card) ==
    [nameElems |-> <<>>, rateElems |-> <<>>, text |-> <<>>,
     textElems |-> <<>>, html |-> <<>>, minElems |-> <<>>,
     eliteElems |-> <<>>, staleAt |-> card.staleAt]

\* the blocks of one iteration that read the container, in order: the name
\* (scraper.py:105-144), the rate (168-202), the task counts (239-275), the
\* two flags (277-310, 312-348), the debug line after the append (371-372)
BLOCKS == <<"start", "rate", "tasks", "minimum", "elite", "log", "never">>

BlockRank(b) == CHOOSE i \in 1..Len(BLOCKS) : BLOCKS[i] = b

\* the container as block b meets it
ViewAt(card, b) ==
    IF BlockRank(card.staleAt) <= BlockRank(b) THEN Gone(card) ELSE card

\* the container as the name extraction meets it
NameView(card) == ViewAt(card, "start")

\* the dict appended for a card whose name was accepted (scraper.py:355-365)
Tasker(card, name) ==
    [name |-> name,
     hourly_rate |-> CleanRate(ExtractRate(ViewAt(card, "rate"))),
     overall_tasks |-> ExtractOverall(ViewAt(card, "tasks")),
     two_hour_minimum |-> TwoHourMinimum(ViewAt(card, "minimum")),
     elite_status |-> EliteStatus(ViewAt(card, "elite"))]

\* one iteration of the card loop, were the final validation left out
ProcessCard_no_gate(card) ==
    IF ExtractName(NameView(card)) = NAME_NOT_FOUND THEN <<>>
    ELSE <<Tasker(card, ExtractName(NameView(card)))>>

\* one iteration of the card loop: the records it appends (scraper.py:102-384)
ProcessCard(card) ==
    IF ExtractName(NameView(card)) = NAME_NOT_FOUND THEN <<>>
    ELSE IF ~is_valid_person_name(ExtractName(NameView(card))) THEN <<>>
    ELSE <<Tasker(card, ExtractName(NameView(card)))>>

\* the iteration ends in the handler of the per-card try (scraper.py:382-384):
\* the record is appended, no rate was found and the read of card.text for
\* the debug line (scraper.py:371-372) raises
RaisesAtLog(card) ==
    /\ card.staleAt # "never"
    /\ ProcessCard(card) # <<>>
    /\ ProcessCard(card)[1].hourly_rate = RATE_NOT_FOUND

\* the loop over the capped containers, were it left at the first exception
\* that reaches the per-card handler
RECURSIVE ProcessCards_stop_at_error(_)
ProcessCards_stop_at_error(cards) ==
    IF cards = <<>> THEN <<>>
    ELSE IF RaisesAtLog(Head(cards)) THEN ProcessCard(Head(cards))
    ELSE ProcessCard(Head(cards)) \o ProcessCards_stop_at_error(Tail(cards))

\* the loop over the capped containers; the handler of the per-card try
\* goes on with the next container
RECURSIVE ProcessCards(_)
ProcessCards(cards) ==
    IF cards = <<>> THEN <<>>
    ELSE ProcessCard(Head(cards)) \o ProcessCards(Tail(cards))

\* extract_taskers_from_current_page(ctx) on a document showing `locators`
extract_taskers_from_current_page(locators) ==
    ProcessCards(CapCards(DiscoverCards(locators)))

(***************************************************************************)
(* Cards and pages the collector is run against                            *)
(***************************************************************************)
S_IvanT == <<"I","v","a","n"," ","T",".">>
S_AboutMeJ == <<"A","b","o","u","t"," ","m","e",":"," ","J",".">>
S_AnnaB == <<"A","n","n","a"," ","B",".">>
S_evac == <<" ","e","v","a"," ","c","."," ">>
S_JR == <<"J","."," ","R",".">>
S_ReadMore == <<"R","e","a","d"," ","m","o","r","e",".">>
S_Rate40 == <<"$","4","0","/","h","r">>
S_TextIvan == <<"I","v","a","n"," ","T",".","\n","$","4","0","/","h","r">>
S_TextAnna == <<"S","e","e"," ","M","A","R","Y"," ","K","."," ","$","3","9",".","2","3","/","h","r">>
S_TextPlain == <<"5",".","0"," ","(","1","2"," ","r","e","v","i","e","w","s",")">>
S_HtmlName == <<"<","b",">","A","b"," "," ","C",".","<","/","b",">">>
S_HtmlPrice == <<"<","i",">","$","3","9",".","2","3","/","h","r","<","/","i",">">>

Shown(t) == [state |-> "shown", text |-> t]
Unshown(t) == [state |-> "hidden", text |-> t]
StaleElem == [state |-> "stale", text |-> <<>>]

Card(names, rates, t, telems, h) ==
    [nameElems |-> names, rateElems |-> rates, text |-> t,
     textElems |-> telems, html |-> h, minElems |-> <<>>,
     eliteElems |-> <<>>, staleAt |-> "never"]

\* name button and rate element both found structurally
CardButton ==
    Card(<< <<Shown(S_IvanT)>> >>, << <<Shown(S_Rate40)>> >>,
         S_TextIvan, <<S_IvanT, S_Rate40>>, <<>>)
\* the first structural candidate is a label that passes the loose check;
\* a rate is there
CardLabel ==
    Card(<< <<>>, <<Unshown(S_IvanT), Shown(S_AboutMeJ)>> >>,
         << <<Shown(S_Rate40)>> >>, S_TextIvan, <<S_AboutMeJ>>, <<>>)
\* nothing structural: the name comes from the visible-text pattern
CardText ==
    Card(<< <<StaleElem, Shown(S_IvanT)>>, <<Shown(S_ReadMore)>> >>, <<>>,
         S_TextAnna, <<>>, <<>>)
\* the name comes from the scan of the text elements
CardElem ==
    Card(<<>>, <<>>, S_TextPlain, <<S_TextPlain, S_evac>>, S_HtmlPrice)
\* the text-element scan yields a candidate the strict check refuses
CardInitials ==
    Card(<<>>, <<>>, S_TextPlain, <<S_JR>>, <<>>)
\* the name comes from the raw markup
CardMarkup ==
    Card(<<>>, <<>>, S_TextPlain, <<S_TextPlain>>, S_HtmlName)
\* no name anywhere, a rate in the text
CardNameless ==
    Card(<< <<Shown(S_ReadMore)>> >>, <<>>, S_Rate40, <<S_Rate40>>, <<>>)

CardSeq == << CardButton, CardLabel, CardText, CardElem, CardInitials,
              CardMarkup, CardNameless >>
NumCards == 7

\* a page of n containers: container i is sample (a * i + b) mod NumCards
PageOf(n, a, b) == [i \in 1..n |-> CardSeq[((a * i + b) % NumCards) + 1]]

\* cards whose name is on a button and whose task counts vary
S_ZeroOverall == <<"0"," ","t","a","s","k","s"," ","o","v","e","r","a","l","l">>
S_ManyOverall == <<"7"," ","t","o","t","a","l"," ","t","a","s","k","s","\n","1","2"," ","A","s","s","e","m","b","l","y"," ","t","a","s","k","s"," ","o","v","e","r","a","l","l">>
S_HtmlZeroTotal == <<"<","p",">","0","0"," "," ","T","O","T","A","L"," ","T","A","S","K","S","<","/","p",">">>
S_HtmlPlain == <<"<","b",">","h","i",","," ","\"","p","r","o","\"","<","/","b",">">>
S_HtmlCompleted == <<"<","p",">","3"," ","t","a","s","k","s"," ","o","v","e","r","a","l","l","<","/","p",">">>

CountCard(t, h) == Card(<< <<Shown(S_IvanT)>> >>, <<>>, t, <<>>, h)

\* the text reports 0 tasks
CardZeroText == CountCard(S_ZeroOverall, <<>>)
\* two patterns match the text, at different counts
CardManyText == CountCard(S_ManyOverall, S_HtmlZeroTotal)
\* nothing in the text, 00 tasks in the markup, upper case
CardZeroHtml == CountCard(S_TextPlain, S_HtmlZeroTotal)
\* nothing in the text, nothing in the markup
CardNoCount == CountCard(S_TextPlain, S_HtmlPlain)
\* nothing in the text, no markup at all
CardNoMarkup == CountCard(S_TextPlain, <<>>)
\* the text matches a late pattern, the markup an early one
CardLateText == CountCard(S_ManyOverall, S_HtmlCompleted)

CountCards ==
    << CardZeroText, CardManyText, CardZeroHtml, CardNoCount, CardNoMarkup,
       CardLateText >>

(***************************************************************************)
(* Pagination resolver                                                     *)
(*                                                                         *)
(* An element of a find_elements result is                                 *)
(*    Hidden      is_displayed() is False (nothing else is read)           *)
(*    Stale       is_displayed() raises: the selector's loop is left       *)
(*    Elem(t, h)  a displayed element; t is its numeric text or NoNum,     *)
(*                h the page parameter of its href or NoNum                *)
(***************************************************************************)
NoNum == -1

Elem(t, h) == [state |-> "shown", text |-> t, href |-> h]
Hidden == [state |-> "hidden", text |-> NoNum, href |-> NoNum]
Stale == [state |-> "stale", text |-> NoNum, href |-> NoNum]

Min(a, b) == IF a < b THEN a ELSE b

\* max(page_numbers)
RECURSIVE SeqMax(_)
SeqMax(q) ==
    IF Len(q) = 1 THEN q[1]
    ELSE LET m == SeqMax(Tail(q)) IN IF q[1] > m THEN q[1] ELSE m

\* page_numbers.sort() on a list without duplicates
RECURSIVE SortSet(_)
SortSet(S) ==
    IF S = {} THEN <<>>
    ELSE LET m == CHOOSE x \in S : \A y \in S : x <= y
         IN  <<m>> \o SortSet(S \ {m})
Sort(q) == SortSet({q[i] : i \in 1..Len(q)})

\* list(range(1, max_page + 1))
Range1(m) == [i \in 1..m |-> i]

\* "if page_num not in page_numbers: page_numbers.append(page_num)"
AddPage(acc, n) ==
    IF \E i \in 1..Len(acc) : acc[i] = n THEN acc ELSE Append(acc, n)

\* the loop over one MUI selector's elements: the button text is the label
RECURSIVE ScanMui(_, _)
ScanMui(elems, acc) ==
    IF elems = <<>> THEN acc
    ELSE LET e == Head(elems)
         IN  IF e.state = "stale" THEN acc
             ELSE IF e.state = "hidden" THEN ScanMui(Tail(elems), acc)
             ELSE IF e.text # NoNum
                  THEN ScanMui(Tail(elems), AddPage(acc, e.text))
                  ELSE ScanMui(Tail(elems), acc)

\* the loop over one link selector's elements: the href page parameter wins,
\* a numeric text is used only when the href carries no 'page='
RECURSIVE ScanLinks(_, _)
ScanLinks(elems, acc) ==
    IF elems = <<>> THEN acc
    ELSE LET e == Head(elems)
         IN  IF e.state = "stale" THEN acc
             ELSE IF e.state = "hidden" THEN ScanLinks(Tail(elems), acc)
             ELSE IF e.href # NoNum
                  THEN ScanLinks(Tail(elems), AddPage(acc, e.href))
             ELSE IF e.text # NoNum
                  THEN ScanLinks(Tail(elems), AddPage(acc, e.text))
                  ELSE ScanLinks(Tail(elems), acc)

\* the loop over one text selector's elements
RECURSIVE ScanTexts(_, _)
ScanTexts(elems, acc) ==
    IF elems = <<>> THEN acc
    ELSE LET e == Head(elems)
         IN  IF e.state = "stale" THEN acc
             ELSE IF e.state = "hidden" THEN ScanTexts(Tail(elems), acc)
             ELSE IF e.text # NoNum
                  THEN ScanTexts(Tail(elems), AddPage(acc, e.text))
                  ELSE ScanTexts(Tail(elems), acc)

\* "for selector in ...: try: ... except: continue" over the selectors
RECURSIVE MuiNumbers(_, _)
MuiNumbers(lists, acc) ==
    IF lists = <<>> THEN acc
    ELSE MuiNumbers(Tail(lists), ScanMui(Head(lists), acc))
RECURSIVE LinkNumbers(_, _)
LinkNumbers(lists, acc) ==
    IF lists = <<>> THEN acc
    ELSE LinkNumbers(Tail(lists), ScanLinks(Head(lists), acc))
RECURSIVE TextNumbers(_, _)
TextNumbers(lists, acc) ==
    IF lists = <<>> THEN acc
    ELSE TextNumbers(Tail(lists), ScanTexts(Head(lists), acc))

\* "if ctx.max_pages and len(p) > ctx.max_pages: p = p[:ctx.max_pages]"
Limit(p, mp) == IF mp # 0 /\ Len(p) > mp THEN SubSeq(p, 1, mp) ELSE p

\* the link and text fallbacks, identical in both implementations
LinkOrTextPages(links, texts, mp) ==
    LET byLink == LinkNumbers(links, <<>>)
    IN  IF byLink # <<>> THEN Limit(Sort(byLink), mp)
        ELSE LET byText == TextNumbers(texts, byLink)
             IN  IF byText # <<>> THEN Limit(Sort(byText), mp) ELSE <<>>

\* the resolver, were the enumerated labels returned as they are seen
get_available_page_numbers_no_fill(mui, links, texts, mp) ==
    LET page_numbers == Sort(MuiNumbers(mui, <<>>))
    IN  IF page_numbers # <<>>
        THEN Limit(page_numbers, mp)
        ELSE LinkOrTextPages(links, texts, mp)

\* the resolver, were the limit applied to the tail of the list
get_available_page_numbers_last(mui, links, texts, mp) ==
    LET page_numbers == Sort(MuiNumbers(mui, <<>>))
        LimitLast(p) == IF mp # 0 /\ Len(p) > mp
                        THEN SubSeq(p, Len(p) - mp + 1, Len(p)) ELSE p
    IN  IF page_numbers # <<>>
        THEN IF Len(page_numbers) >= 2
                  /\ SeqMax(page_numbers) > Len(page_numbers)
             THEN LimitLast(Range1(SeqMax(page_numbers)))
             ELSE LimitLast(page_numbers)
        ELSE LinkOrTextPages(links, texts, mp)

\* scraper.get_available_page_numbers(ctx)
get_available_page_numbers(mui, links, texts, mp) ==
    LET page_numbers == Sort(MuiNumbers(mui, <<>>))
    IN  IF page_numbers # <<>>
        THEN IF Len(page_numbers) >= 2
                  /\ SeqMax(page_numbers) > Len(page_numbers)
             THEN Limit(Range1(SeqMax(page_numbers)), mp)
             ELSE Limit(page_numbers, mp)
        ELSE LinkOrTextPages(links, texts, mp)

\* TaskRabbitParser.get_available_page_numbers(): an enumerated control that
\* is not elided is returned without the max_pages limit
Parser_get_available_page_numbers(mui, links, texts, mp) ==
    LET page_numbers == Sort(MuiNumbers(mui, <<>>))
    IN  IF page_numbers # <<>>
        THEN IF Len(page_numbers) >= 2
                  /\ SeqMax(page_numbers) > Len(page_numbers)
             THEN Limit(Range1(SeqMax(page_numbers)), mp)
             ELSE page_numbers
        ELSE LinkOrTextPages(links, texts, mp)

(***************************************************************************)
(* Pagination controls the resolver is run against                         *)
(***************************************************************************)
\* every sequence over A of length at most n
Seqs(A, n) == UNION { [1..k -> A] : k \in 0..n }

\* largest enumerated label, longest element list, largest page limit
MaxLabel == 3
MaxElems == 3
MaxLimit == 2
\* largest page parameter and longest list of the link fallback
MaxLinkPage == 2
MaxLinks == 2

Labels == {NoNum} \cup 0..MaxLabel
LinkNums == {NoNum} \cup 1..MaxLinkPage
MuiElems == {Hidden, Stale} \cup { Elem(t, NoNum) : t \in Labels }
LinkElems == {Hidden, Stale} \cup { Elem(t, h) : t \in LinkNums, h \in LinkNums }

\* the control of the specification's example: 1 2 3 4 5 ... 24
ElidedExample ==
    << Elem(1, NoNum), Elem(2, NoNum), Elem(3, NoNum), Elem(4, NoNum),
       Elem(5, NoNum), Elem(NoNum, NoNum), Elem(24, NoNum) >>

\* selector results that yield no number at all
NoMui == << <<Hidden, Elem(NoNum, NoNum)>>, <<Stale, Elem(3, NoNum)>> >>
NoLinks == << <<Stale, Elem(2, 3)>>, <<Elem(NoNum, NoNum), Hidden>> >>
\* one link, one text link
SomeLinks == << <<Elem(NoNum, 2)>> >>
SomeTexts == << <<Elem(3, NoNum), Elem(1, NoNum)>> >>

\* the document shows control d and the parser was built with max_pages mp
DocStart(d, mp) ==
    /\ muiLists = d[1]
    /\ linkLists = d[2]
    /\ textLists = d[3]
    /\ max_pages = mp

PagesIdle ==
    /\ DocStart(<< <<>>, <<>>, <<>> >>, 0)
    /\ pagesS = <<>>
    /\ pagesP = <<>>

\* the document shows the containers f and is on page 1
ViewStart(f) ==
    /\ found = f
    /\ docPage = 1
    /\ urlPage = NoNum

CollectIdle ==
    /\ ViewStart(<<>>)
    /\ tasker_cards = <<>>
    /\ taskers = <<>>

\* extract_tasker_data has not been entered
WalkIdle ==
    /\ nav = "not_requested"
    /\ wpc = "start"
    /\ available_pages = <<>>
    /\ idx = 0
    /\ all_taskers = <<>>
    /\ tries = 0
    /\ trace = <<>>

\* None, and a value that is not None, as the values of an Optional
None == <<>>

Some(v) == <<v>>

\* results = {} (cli.py:16, taskrabbit_parser.py:1992)
NoResults == [c \in {} |-> None]

\* run_all_categories has not been called
RunIdle ==
    /\ entry = "parser"
    /\ rpc = "idle"
    /\ cat = 0
    /\ results = NoResults
    /\ saved = {}

(***************************************************************************)
(* Validator inputs                                                        *)
(***************************************************************************)
\* every string over A of length at most n
Strs(A, n) == UNION { [1..k -> A] : k \in 0..n }

\* longest exhaustively enumerated candidate
MaxNameLen == 5
NameAlphabet == {"a", "B", " ", ".", ":"}

\* a first word of p letters, to reach the 50-character limit
Pad(p) == [i \in 1..p |-> "a"]
PadLens == 44..48
LongTails == { <<" ","B",".">>, <<"a"," ","B",".">>, <<" ","a"," ","b",".">>,
               <<":"," ","B",".">>, <<" ","B">> }

\* the strings of test_name_validation.py and of the card texts
NameCorpus ==
    {
      <<"L","a","u","r","e","t","t","e"," ","O",".">>,
      <<"e","v","a"," ","c",".">>,
      <<"L","a","r","i","s","a"," ","Y",".">>,
      <<"M","o","r","i","a","h"," ","T",".">>,
      <<"A","r","a","b","e","l","l","a"," ","C",".">>,
      <<"J","o","h","n"," ","S","m","i","t","h">>,
      <<"M","a","r","i","a">>,
      <<"D","a","v","i","d"," ","L",".">>,
      <<"H","o","w"," ","I"," ","c","a","n"," ","h","e","l","p",":">>,
      <<"A","b","o","u","t"," ","m","e",":">>,
      <<"M","y"," ","e","x","p","e","r","i","e","n","c","e">>,
      <<"W","h","a","t"," ","I"," ","d","o">>,
      <<"S","e","r","v","i","c","e","s"," ","o","f","f","e","r","e","d">>,
      <<"C","o","n","t","a","c","t"," ","m","e">>,
      <<"B","o","o","k"," ","n","o","w">>,
      <<"V","i","e","w"," ","p","r","o","f","i","l","e">>,
      <<"$","2","5","/","h","r">>,
      <<"5"," ","s","t","a","r","s">>,
      <<>>,
      <<"a">>,
      <<"1","2","3","4","5","6">>,
      <<"!","!","!">>,
      <<"M","A","R","Y"," ","A","N","N"," ","K",".">>,
      <<"R","e","a","d"," ","m","o","r","e",".">>,
      <<"A","b","o","u","t"," ","m","e",":"," ","J",".">>,
      <<"I","v","a","n"," ","T",".">>,
      <<"J","o"," ","A","n","n"," ","D","e"," ","L","a"," ","C",".">>,
      <<"J","o","h","n","\n","S",".">>,
      <<"A","n","n","e","-","M","a","r","i","e"," ","D",".">>,
      <<"O","'","N","e","i","l"," ","P",".">>,
      <<"J","."," ","R",".">>,
      <<" ","I","v","a","n"," ","T","."," ">>
    }

NameInputs ==
    Strs(NameAlphabet, MaxNameLen)
      \cup { Pad(p) \o t : p \in PadLens, t \in LongTails }
      \cup NameCorpus

\* a returned bool, as stored in a variable that may also hold "none"
Ret(b) == IF b THEN "True" ELSE "False"

(***************************************************************************)
(* Validator harness: one candidate string, each check applied to it       *)
(***************************************************************************)
NameStart(t) ==
    /\ text = t
    /\ validRes = "none"
    /\ potRes = "none"

NameInit ==
    /\ \E t \in NameInputs : NameStart(t)
    /\ PagesIdle
    /\ CollectIdle
    /\ WalkIdle
    /\ RunIdle

\* a caller evaluates ctx.is_valid_person_name(text)
ValidateStrict ==
    /\ validRes = "none"
    /\ validRes' = Ret(is_valid_person_name(text))
    /\ UNCHANGED <<text, potRes>>
    /\ UNCHANGED <<pageVars, collVars, walkVars, runVars>>

\* a caller evaluates ctx.is_potential_name(text)
ValidateLoose ==
    /\ potRes = "none"
    /\ potRes' = Ret(is_potential_name(text))
    /\ UNCHANGED <<text, validRes>>
    /\ UNCHANGED <<pageVars, collVars, walkVars, runVars>>

NameNext == ValidateStrict \/ ValidateLoose

SpecName == NameInit /\ [][NameNext]_vars

(***************************************************************************)
(* Resolver harness: one control, each implementation applied to it        *)
(***************************************************************************)
PagesInit ==
    /\ \/ \* an enumerated control: every list of buttons, the second MUI
          \* selector returning the same buttons or one further button
          \E l \in Seqs(MuiElems, MaxElems),
             l2 \in {<<>>, <<Elem(MaxLabel + 1, NoNum)>>},
             mp \in 0..MaxLimit :
               DocStart(<< <<l, IF l2 = <<>> THEN l ELSE l2>>,
                           SomeLinks, <<>> >>, mp)
       \/ \* the example control, with the limits 3 and 30 and without limit
          \E mp \in {0, 3, 30} :
               DocStart(<< <<ElidedExample, ElidedExample>>, <<>>, <<>> >>, mp)
       \/ \* no enumerated control: every list of links
          \E l \in Seqs(LinkElems, MaxLinks),
             l2 \in {<<>>, <<Elem(NoNum, MaxLinkPage + 1)>>},
             mp \in 0..MaxLimit :
               DocStart(<<NoMui, <<l, l2>>, SomeTexts>>, mp)
       \/ \* neither: every list of text links
          \E l \in Seqs(MuiElems, MaxElems), mp \in 0..MaxLimit :
               DocStart(<< <<>>, NoLinks, <<l>> >>, mp)
    /\ pagesS = <<>>
    /\ pagesP = <<>>
    /\ NameStart(<<>>)
    /\ CollectIdle
    /\ WalkIdle
    /\ RunIdle

\* scraper.get_available_page_numbers(ctx) runs
ResolveScraper ==
    /\ pagesS = <<>>
    /\ pagesS' = <<get_available_page_numbers(muiLists, linkLists, textLists,
                                              max_pages)>>
    /\ UNCHANGED <<docVars, pagesP>>
    /\ UNCHANGED <<nameVars, collVars, walkVars, runVars>>

\* TaskRabbitParser.get_available_page_numbers() runs
ResolveParser ==
    /\ pagesP = <<>>
    /\ pagesP' = <<Parser_get_available_page_numbers(muiLists, linkLists,
                                                     textLists, max_pages)>>
    /\ UNCHANGED <<docVars, pagesS>>
    /\ UNCHANGED <<nameVars, collVars, walkVars, runVars>>

PagesNext == ResolveScraper \/ ResolveParser

SpecPages == PagesInit /\ [][PagesNext]_vars

(***************************************************************************)
(* Claims about the resolver                                               *)
(***************************************************************************)
\* the labels read from the enumerated control: the numeric texts of the
\* displayed buttons each selector's loop reaches
ReachedLabels(l) ==
    { l[i].text : i \in { j \in 1..Len(l) :
                            /\ \A k \in 1..j : l[k] # Stale
                            /\ l[j] # Hidden
                            /\ l[j].text # NoNum } }
VisibleLabels == UNION { ReachedLabels(muiLists[k]) : k \in 1..Len(muiLists) }
SetMax(S) == CHOOSE x \in S : \A y \in S : y <= x
IsElided(S) == Cardinality(S) >= 2 /\ SetMax(S) > Cardinality(S)

\* C1: with no max_pages limit, an enumerated control whose labels are at
\* least two and whose largest label M exceeds their number resolves to the
\* dense list 1, 2, ..., M, in both implementations.
C1_ElidedIsDense ==
    (max_pages = 0 /\ IsElided(VisibleLabels)) =>
        /\ pagesS # <<>> => pagesS[1] = [i \in 1..SetMax(VisibleLabels) |-> i]
        /\ pagesP # <<>> => pagesP[1] = [i \in 1..SetMax(VisibleLabels) |-> i]

\* the control 1 2 3 4 5 ... 24 was resolved to the 24 pages 1..24
C1_Witness ==
    /\ max_pages = 0
    /\ VisibleLabels = {1, 2, 3, 4, 5, 24}
    /\ pagesS # <<>> /\ Len(pagesS[1]) = 24 /\ pagesS[1][6] = 6
    /\ pagesP # <<>> /\ Len(pagesP[1]) = 24

\* the first n entries of a list
FirstN(p, n) == SubSeq(p, 1, Min(n, Len(p)))

\* C2: for every control and every positive max_pages, the resolved list has
\* at most max_pages entries and is the first max_pages entries of the list
\* resolved without a limit, in both implementations.
C2_FirstNPages ==
    max_pages > 0 =>
        /\ pagesS # <<>> =>
             /\ Len(pagesS[1]) <= max_pages
             /\ pagesS[1] = FirstN(get_available_page_numbers(
                                muiLists, linkLists, textLists, 0), max_pages)
        /\ pagesP # <<>> =>
             /\ Len(pagesP[1]) <= max_pages
             /\ pagesP[1] = FirstN(Parser_get_available_page_numbers(
                                muiLists, linkLists, textLists, 0), max_pages)

(***************************************************************************)
(* Claims about the validators                                             *)
(***************************************************************************)
\* ^[A-Za-z]+(?: [A-Za-z]+)* [A-Za-z]\.$
MatchesStrictPattern(s) ==
    LET n == Len(s)
    IN  /\ n >= 4
        /\ s[n] = "."
        /\ IsAlpha(s[n - 1])
        /\ s[n - 2] = " "
        /\ IsAlpha(s[1])
        /\ \A i \in 1..(n - 3) : IsAlpha(s[i]) \/ s[i] = " "
        /\ \A i \in 1..(n - 3) : s[i] = " " => IsAlpha(s[i + 1])

\* C9: every string of at most 50 characters that has the shape
\* "word( word)* X." of purely alphabetic words is accepted by the strict
\* check is_valid_person_name, in any letter case.
C9_StrictPatternAccepted ==
    (validRes # "none" /\ MatchesStrictPattern(text) /\ Len(text) <= 50)
        => validRes = "True"

\* a three-word lower-case name of exactly 50 characters was accepted
C9_Witness ==
    /\ validRes = "True"
    /\ MatchesStrictPattern(text)
    /\ Len(text) = 50
    /\ Len(Split(text)) = 3
    /\ ~IsUpper(text[Len(text) - 1])

IsPlainName(s) ==
    LET parts == Split(s)
    IN  /\ s # <<>>
        /\ \A i \in 1..Len(s) : IsAlpha(s[i]) \/ s[i] = " "
        /\ \/ Len(parts) = 1 /\ Len(parts[1]) >= 2
           \/ Len(parts) = 2

\* C11 as stated: is_valid_person_name accepts a plausible name with or
\* without a closing initial: one alphabetic word of two letters or more
\* ("Maria"), two alphabetic words ("John Smith"), and "Firstname I." forms.
\* Refuted: a name that does not end in a period is refused.
C11_PlainNamesAccepted ==
    (validRes # "none"
       /\ Len(text) <= 50
       /\ (IsPlainName(text) \/ MatchesStrictPattern(text)))
        => validRes = "True"

\* C22 as stated: every string the strict check is_valid_person_name accepts
\* is also accepted by the loose check is_potential_name.
\* Refuted: the strict check has neither the list of disallowed words nor
\* the limit of four words of the loose check.
C22_StrictImpliesLoose ==
    (validRes = "True" /\ potRes # "none") => potRes = "True"

(***************************************************************************)
(* Collector harness: one document, the collector applied to it            *)
(***************************************************************************)
\* most containers a generated page holds (one more than the cap)
MaxCards == 16
\* most containers of a page made of the task-count cards
MaxCountCards == 2
\* the number of locators: the primary and four fallbacks (scraper.py:72-82)
NumLocators == 5

\* a document whose locator `loc` is the first to return containers (page);
\* the later locators return one unrelated container each
Located(page, loc) ==
    [k \in 1..NumLocators |->
        IF k < loc THEN <<>>
        ELSE IF k = loc THEN page
        ELSE PageOf(1, 0, k)]

CollectInit ==
    /\ \/ \E n \in (0..MaxCards) \cup {20}, a \in {0, 1, 3},
             b \in 0..(NumCards - 1), loc \in 1..NumLocators :
               ViewStart(Located(PageOf(n, a, b), loc))
       \/ \E q \in Seqs(1..Len(CountCards), MaxCountCards),
             loc \in 1..NumLocators :
               ViewStart(Located([i \in 1..Len(q) |-> CountCards[q[i]]], loc))
    /\ tasker_cards = <<>>
    /\ taskers = <<>>
    /\ NameStart(<<>>)
    /\ PagesIdle
    /\ WalkIdle
    /\ RunIdle

\* extract_taskers_from_current_page(ctx) runs on the loaded document
CollectPage ==
    /\ taskers = <<>>
    /\ tasker_cards' = CapCards(DiscoverCards(found))
    /\ taskers' = <<extract_taskers_from_current_page(found)>>
    /\ UNCHANGED viewVars
    /\ UNCHANGED <<nameVars, pageVars, walkVars, runVars>>

CollectNext == CollectPage

SpecCollect == CollectInit /\ [][CollectNext]_vars

(***************************************************************************)
(* Claims about the collector                                              *)
(***************************************************************************)
\* the containers of the first locator that returned any
Discovered ==
    IF \A k \in 1..Len(found) : found[k] = <<>> THEN <<>>
    ELSE found[CHOOSE k \in 1..Len(found) :
                 /\ found[k] # <<>>
                 /\ \A j \in 1..(k - 1) : found[j] = <<>>]

\* C7: of n discovered containers exactly the first min(n, 15) are processed,
\* the rest are ignored whatever they hold, and a page yields at most 15
\* records.
C7_PerPageCap ==
    taskers # <<>> =>
        LET n == Len(Discovered)
            m == IF n < 15 THEN n ELSE 15
        IN  /\ Len(tasker_cards) = m
            /\ tasker_cards = SubSeq(Discovered, 1, m)
            /\ Len(taskers[1]) <= 15
            /\ taskers[1] = ProcessCards(SubSeq(Discovered, 1, m))

\* 20 containers were discovered, 15 processed, and one of the 5 ignored
\* containers would have given a record
C7_Witness ==
    /\ taskers # <<>>
    /\ Len(Discovered) = 20
    /\ Len(tasker_cards) = 15
    /\ Len(taskers[1]) = 15
    /\ \E k \in 16..20 : ProcessCard(Discovered[k]) # <<>>

\* the record card j of the processed containers gave, <<>> if it gave none
RecordOfCard(j) ==
    IF ProcessCard(tasker_cards[j]) = <<>> THEN <<>>
    ELSE <<taskers[1][Len(ProcessCards(SubSeq(tasker_cards, 1, j)))]>>

\* the rate of card c can only come from a rate occurrence in its markup
RateOnlyInMarkup(c) ==
    /\ RateFromSelectors(c.rateElems) = RATE_NOT_FOUND
    /\ FirstRate(c.text) = <<>>
    /\ FirstRate(c.html) # <<>>

\* the digits (and decimal point) of a "$...../hr" occurrence
AmountOf(r) == SubSeq(r, 2, Len(r) - 3)

\* C12 as stated: when no structural selector and no visible text gives a
\* rate but the markup holds one, the record's hourly_rate is the numeric
\* amount of the first occurrence ("39.23" for "$39.23/hr").
\* Refuted: only the "/hr" suffix is removed, the "$" stays.
C12_MarkupRateIsAmount ==
    taskers # <<>> =>
        \A j \in 1..Len(tasker_cards) :
            (RateOnlyInMarkup(tasker_cards[j]) /\ RecordOfCard(j) # <<>>) =>
                RecordOfCard(j)[1].hourly_rate =
                    AmountOf(FirstRate(tasker_cards[j].html))

\* no overall-tasks pattern matches the text or the markup of card c
NoOverallMatch(c) ==
    \A k \in 1..Len(OVERALL_PATTERNS) :
        /\ SearchCount(c.text, OVERALL_PATTERNS[k]) = <<>>
        /\ SearchCount(c.html, OVERALL_PATTERNS[k]) = <<>>

IsZeroCount(g) == g # <<>> /\ \A i \in 1..Len(g) : g[i] = "0"

\* some pattern matches in card c, and every match reports the count 0
OnlyZeroMatches(c) ==
    /\ ~NoOverallMatch(c)
    /\ \A k \in 1..Len(OVERALL_PATTERNS) :
        /\ SearchCount(c.text, OVERALL_PATTERNS[k]) # <<>>
             => IsZeroCount(SearchCount(c.text, OVERALL_PATTERNS[k]))
        /\ SearchCount(c.html, OVERALL_PATTERNS[k]) # <<>>
             => IsZeroCount(SearchCount(c.html, OVERALL_PATTERNS[k]))

\* C13: the overall_tasks value of a record whose card matches no
\* overall-tasks pattern differs, as a value and as a CSV cell, from that of a
\* record whose card matches the count 0.
C13_AbsentDiffersFromZero ==
    taskers # <<>> =>
        \A j \in { k \in 1..Len(tasker_cards) :
                      OnlyZeroMatches(tasker_cards[k]) } :
            \A i \in { k \in 1..Len(tasker_cards) :
                          NoOverallMatch(tasker_cards[k]) } :
                (RecordOfCard(i) # <<>> /\ RecordOfCard(j) # <<>>) =>
                    /\ RecordOfCard(i)[1].overall_tasks
                         # RecordOfCard(j)[1].overall_tasks
                    /\ CsvCell(RecordOfCard(i)[1].overall_tasks)
                         # CsvCell(RecordOfCard(j)[1].overall_tasks)
                    /\ RecordOfCard(i)[1].overall_tasks
                         \in {NOT_FOUND, NONE_TEXT}
                    /\ IsZeroCount(RecordOfCard(j)[1].overall_tasks)

\* one page gave a record without a count and a record with the count 0
C13_Witness ==
    /\ taskers # <<>>
    /\ Len(taskers[1]) = 2
    /\ NoOverallMatch(tasker_cards[1])
    /\ OnlyZeroMatches(tasker_cards[2])
    /\ taskers[1][1].overall_tasks = NONE_TEXT
    /\ taskers[1][2].overall_tasks = <<"0", "0">>

\* the patterns, by their place in the list, that match the text t
MatchingPatterns(t) ==
    { k \in 1..Len(OVERALL_PATTERNS) :
        SearchCount(t, OVERALL_PATTERNS[k]) # <<>> }

\* the count the earliest listed matching pattern finds in t
EarliestPatternCount(t) ==
    SearchCount(t, OVERALL_PATTERNS[
        CHOOSE k \in MatchingPatterns(t) :
            \A m \in MatchingPatterns(t) : k <= m])

\* C25: the overall-tasks count of a record is supplied by the earliest
\* listed pattern that matches the visible text; only when no pattern matches
\* the visible text is it supplied by the earliest listed pattern that
\* matches the markup.
C25_FirstPatternTextBeforeMarkup ==
    taskers # <<>> =>
        \A j \in { k \in 1..Len(tasker_cards) :
                      \/ MatchingPatterns(tasker_cards[k].text) # {}
                      \/ MatchingPatterns(tasker_cards[k].html) # {} } :
            RecordOfCard(j) # <<>> =>
                RecordOfCard(j)[1].overall_tasks =
                    IF MatchingPatterns(tasker_cards[j].text) # {}
                    THEN EarliestPatternCount(tasker_cards[j].text)
                    ELSE EarliestPatternCount(tasker_cards[j].html)

\* a record whose visible text matches the first pattern (count 12) after
\* the fourth (count 7) and whose markup matches the second (count 3): the
\* count is 12
C25_Witness ==
    /\ taskers # <<>>
    /\ Len(taskers[1]) >= 1
    /\ Len(tasker_cards) >= 1
    /\ MatchingPatterns(tasker_cards[1].text) = {1, 4}
    /\ SearchCount(tasker_cards[1].text, OVERALL_PATTERNS[4]) = <<"7">>
    /\ MatchingPatterns(tasker_cards[1].html) = {2}
    /\ SearchCount(tasker_cards[1].html, OVERALL_PATTERNS[2]) = <<"3">>
    /\ taskers[1][1].overall_tasks = <<"1", "2">>

\* locator k, 1 the primary and 2..5 the fallbacks, is the first one that
\* returned containers
FirstNonEmpty(k) ==
    /\ found[k] # <<>>
    /\ \A j \in 1..(k - 1) : found[j] = <<>>

\* C20: container discovery is an ordered first-non-empty cascade: the
\* containers processed on a page are those (up to the per-page cap) of the
\* first locator, primary then fallbacks 1 to 4, that returned a non-empty
\* list, whatever the later locators return; when every locator returns
\* nothing the page yields zero records.
C20_FirstNonEmptyLocator ==
    taskers # <<>> =>
        /\ \A k \in 1..Len(found) :
              FirstNonEmpty(k) =>
                  /\ tasker_cards = CapCards(found[k])
                  /\ Len(taskers[1]) <= Len(tasker_cards)
        /\ (\A k \in 1..Len(found) : found[k] = <<>>) =>
              /\ tasker_cards = <<>>
              /\ taskers[1] = <<>>

\* the primary locator and the first fallback returned nothing, the second
\* fallback returned two containers, which were processed and gave records,
\* and the later fallbacks would have returned other containers
C20_Witness ==
    /\ taskers # <<>>
    /\ FirstNonEmpty(3)
    /\ Len(found[3]) = 2
    /\ tasker_cards = found[3]
    /\ taskers[1] # <<>>
    /\ \A k \in 4..Len(found) : found[k] # <<>> /\ found[k] # found[3]

(***************************************************************************)
(* Card harness: the collector applied to a page of one container, the     *)
(* container being assembled from parts                                    *)
(***************************************************************************)
S_TaskR == <<"T","a","s","k"," ","R",".">>
S_TextTask == <<"T","a","s","k"," ","R","."," ","$","4","0","/","h","r">>

\* what the name selectors of a container may return
NameElemChoices ==
    { <<>>,
      << <<Shown(S_IvanT)>> >>,
      << <<>>, <<Unshown(S_IvanT), Shown(S_AnnaB)>> >>,
      << <<Shown(S_ReadMore)>>, <<Shown(S_AnnaB), Shown(S_IvanT)>> >>,
      << <<StaleElem, Shown(S_IvanT)>>, <<Shown(S_ReadMore)>> >>,
      << <<Shown(S_AboutMeJ), Shown(S_IvanT)>> >>,
      << <<Shown(S_TaskR)>>, <<Shown(S_ReadMore)>> >> }

\* the visible text of a container
TextChoices == {S_TextIvan, S_TextAnna, S_TextPlain, S_TextTask}

\* the texts of the elements .//*[text()] returns
TextElemChoices == { <<>>, <<S_TextPlain, S_evac>>, <<S_JR>> }

\* the markup of a container
HtmlChoices == { <<>>, S_HtmlName, S_HtmlPrice }

\* a page of one container whose identity parts vary
NameCardInit ==
    \E n \in NameElemChoices, t \in TextChoices, te \in TextElemChoices,
       h \in HtmlChoices :
        ViewStart(Located(<<Card(n, << <<Shown(S_Rate40)>> >>, t, te, h)>>, 1))

S_Rate40Min == <<"$","4","0","/","h","r"," ","m","i","n">>
S_From40 == <<"f","r","o","m"," ","$","4","0","/","h","r">>
S_HtmlBare == <<"<","i",">","$","3","9",".","2","3","<","/","i",">">>

\* what the rate selectors of a container may return
RateElemChoices ==
    { <<>>,
      << <<Shown(S_Rate40)>> >>,
      << <<Shown(S_Rate40Min)>> >>,
      << <<StaleElem, Shown(S_Rate40)>>, <<Unshown(S_Rate40), Shown(S_From40)>> >> }

\* a page of one container whose rate parts vary
RateCardInit ==
    \E r \in RateElemChoices, t \in {S_TextIvan, S_TextPlain},
       h \in {<<>>, S_HtmlPrice, S_HtmlBare, S_HtmlName} :
        ViewStart(Located(<<Card(<< <<Shown(S_IvanT)>> >>, r, t, <<>>, h)>>, 1))

S_TextMin == <<"I","v","a","n"," ","T",".","\n","2"," ","H","O","U","R","\n","m","i","n","i","m","u","m">>
S_TextNearMin == <<"2"," ","h","o","u","r","s"," ","m","i","n">>
S_TextElite == <<"E","L","I","T","E"," ","I","v","a","n"," ","T",".">>
S_TextNearElite == <<"E","l","i","t","e","s">>
S_Perks == <<" ","E","l","i","t","e"," ","2","h","r"," ","m","i","n","i","m","u","m"," ","5"," ","t","a","s","k","s"," ","o","v","e","r","a","l","l">>
S_HtmlMin == <<"<","p",">","m","i","n","2","h","r","<","/","p",">">>
S_HtmlElite == <<"<","b",">","e","l","i","t","e","<","/","b",">">>
S_HtmlNearElite == <<"<","i"," ","c","l","a","s","s","=","\"","i","s","_","e","l","i","t","e","\"",">">>

\* what the keyword selectors of a flag may return
FlagElemChoices ==
    { <<>>,
      << <<Shown(<<>>)>> >>,
      << <<Unshown(<<>>)>>, <<StaleElem, Shown(<<>>)>> >>,
      << <<Unshown(<<>>), StaleElem>>, <<>>, <<Shown(<<>>), StaleElem>> >> }

FlagCard(t, h, m, e) ==
    [nameElems |-> << <<Shown(S_IvanT)>> >>,
     rateElems |-> << <<Shown(S_Rate40)>> >>, text |-> t,
     textElems |-> <<>>, html |-> h, minElems |-> m, eliteElems |-> e,
     staleAt |-> "never"]

\* a page of one container whose flag parts vary
FlagCardInit ==
    \E t \in {S_TextIvan, S_TextMin, S_TextNearMin, S_TextElite,
              S_TextNearElite},
       h \in {<<>>, S_HtmlMin, S_HtmlElite, S_HtmlNearElite},
       m \in FlagElemChoices, e \in FlagElemChoices :
        ViewStart(Located(<<FlagCard(t, h, m, e)>>, 1))

\* most containers of a page of containers that go stale
MaxStaleCards == 3

\* a container with its name on the button, its rate in the text or nowhere,
\* a task count and both flags in its text, that goes stale before block b
StaleCard(withRate, b) ==
    [nameElems |-> << <<Shown(IF withRate THEN S_IvanT ELSE S_AnnaB)>> >>,
     rateElems |-> <<>>,
     text |-> (IF withRate THEN S_Rate40 ELSE <<>>) \o S_Perks,
     textElems |-> <<>>, html |-> <<>>, minElems |-> <<>>,
     eliteElems |-> <<>>, staleAt |-> b]

\* the containers of the pages below: with a rate, the block before which they
\* go stale spans the name, the rate and the last flag; without a rate, where
\* the text is read again for the log, it spans the counts, a flag and the log
StaleChoices ==
    {<<TRUE, "never">>, <<TRUE, "start">>, <<TRUE, "rate">>,
     <<TRUE, "elite">>, <<FALSE, "never">>, <<FALSE, "tasks">>,
     <<FALSE, "minimum">>, <<FALSE, "log">>}

\* a page of containers some of which go stale while they are processed
StaleCardInit ==
    \E n \in 1..MaxStaleCards :
        \E c \in [1..n -> StaleChoices] :
            ViewStart(Located([i \in 1..n |-> StaleCard(c[i][1], c[i][2])],
                              1))

CardInit ==
    /\ NameCardInit \/ RateCardInit \/ FlagCardInit \/ StaleCardInit
    /\ tasker_cards = <<>>
    /\ taskers = <<>>
    /\ NameStart(<<>>)
    /\ PagesIdle
    /\ WalkIdle
    /\ RunIdle

SpecCard == CardInit /\ [][CollectNext]_vars

(***************************************************************************)
(* Claims about the identity of one container                              *)
(***************************************************************************)

MinOf(S) == CHOOSE x \in S : \A y \in S : x <= y

\* the displayed elements of one selector whose text passes the loose check
ShownPassing(elems) ==
    { i \in 1..Len(elems) :
        /\ elems[i].state = "shown"
        /\ is_potential_name(Strip(elems[i].text)) }

\* the structural selectors of card c that have such an element
WithCandidate(c) ==
    { k \in 1..Len(c.nameElems) : ShownPassing(c.nameElems[k]) # {} }

\* the first such element, in document order, of the earliest such selector
StructuralName(c) ==
    LET k == MinOf(WithCandidate(c))
    IN  Strip(c.nameElems[k][MinOf(ShownPassing(c.nameElems[k]))].text)

\* the first candidate of a list that passes the loose check
FirstPassing(cands) ==
    LET ok == { i \in 1..Len(cands) : is_potential_name(cands[i]) }
    IN  IF ok = {} THEN NAME_NOT_FOUND ELSE cands[MinOf(ok)]

\* the name the cascade gives card c: structural selectors, then the regex
\* over the visible text, then the scan of the text elements, then the regex
\* over the markup
CascadeName(c) ==
    IF WithCandidate(c) # {} THEN StructuralName(c)
    ELSE IF FirstNamePattern(c.text) # <<>> THEN FirstNamePattern(c.text)
    ELSE IF FirstPassing([k \in 1..Len(c.textElems) |->
                             Strip(c.textElems[k])]) # NAME_NOT_FOUND
         THEN FirstPassing([k \in 1..Len(c.textElems) |->
                               Strip(c.textElems[k])])
    ELSE FirstPassing(HtmlNamePatterns(c.html, 1))

\* C21 as stated: the name of a container is the first displayed candidate,
\* in document order, that passes the validator under the earliest structural
\* selector that has one; the regex over the visible text is used only when
\* no structural selector has one, and the regex over the markup only when
\* the visible-text tiers gave nothing either.
\* Refuted: a selector one of whose elements raises before a displayed
\* passing candidate is reached is abandoned, and a later tier names the
\* container.
C21_CascadeOrder ==
    taskers # <<>> =>
        \A j \in 1..Len(tasker_cards) :
            /\ RecordOfCard(j) # <<>> =>
                 RecordOfCard(j)[1].name = CascadeName(tasker_cards[j])
            /\ is_valid_person_name(CascadeName(tasker_cards[j])) =>
                 RecordOfCard(j) # <<>>

\* the boilerplate words no accepted identity may contain
BoilerplateWords ==
    { <<"r","e","v","i","e","w">>, <<"t","a","s","k">>, <<"h","o","u","r">>,
      <<"r","e","a","d">>, <<"m","o","r","e">>,
      <<"s","e","l","e","c","t">>, <<"c","o","n","t","i","n","u","e">> }

\* C23 as stated: whichever strategy produced it, the name of a record
\* contains, case-insensitively, none of the words review, task, hour, read,
\* more, select, continue.
\* Refuted: a name found by the regex over the visible text is not put to
\* the check that holds the list, only to the strict check, which has none.
C23_NoBoilerplateInNames ==
    \A r \in 1..Len(taskers) : \A i \in 1..Len(taskers[r]) :
        \A w \in BoilerplateWords : ~HasSubstr(Lower(taskers[r][i].name), w)

\* C26 as stated: whichever tier produced it, the hourly_rate of a record in
\* which a rate was found does not contain "/hr".
\* Refuted: the suffix is removed only from a rate that ends with it, and a
\* structural rate text need not end with it.
C26_NoUnitSuffix ==
    \A r \in 1..Len(taskers) : \A i \in 1..Len(taskers[r]) :
        taskers[r][i].hourly_rate # RATE_NOT_FOUND
            => ~HasSubstr(taskers[r][i].hourly_rate, PER_HOUR)

\* card c has a displayed structural name candidate that passes the loose
\* and the strict check
HasStrictCandidate(c) ==
    \E k \in 1..Len(c.nameElems) : \E i \in 1..Len(c.nameElems[k]) :
        /\ c.nameElems[k][i].state = "shown"
        /\ is_potential_name(Strip(c.nameElems[k][i].text))
        /\ is_valid_person_name(Strip(c.nameElems[k][i].text))

\* C28 as stated: a processed container that has a displayed structural name
\* candidate passing both the loose and the strict check yields a record,
\* even when an earlier candidate passes the loose check only.
\* Refuted: the first candidate that passes the loose check is the only one
\* put to the strict check.
C28_StrictCandidateYieldsRecord ==
    taskers # <<>> =>
        \A j \in { k \in 1..Len(tasker_cards) :
                      HasStrictCandidate(tasker_cards[k]) } :
            RecordOfCard(j) # <<>>

\* a keyword regex of the two-hour minimum matches t
MinimumIn(t) ==
    \E k \in 1..Len(MINIMUM_PATTERNS) : SearchParts(t, MINIMUM_PATTERNS[k])

\* a keyword regex of the elite status matches t
EliteIn(t) ==
    \E k \in 1..Len(ELITE_PATTERNS) : SearchWord(t, ELITE_PATTERNS[k])

\* a displayed element is matched by one of the keyword selectors
DisplayedMatch(lists) ==
    \E k \in 1..Len(lists) : \E i \in 1..Len(lists[k]) :
        lists[k][i].state = "shown"

\* C24 as stated: each flag of a record is a boolean, and it is true if and
\* only if a keyword regex matches the visible text, or matches the markup,
\* or a displayed element is matched by a keyword selector.
\* Refuted: a keyword selector whose list holds a raising element before the
\* displayed one is passed over, and the flag stays false.
C24_FlagIsOrOfTiers ==
    taskers # <<>> =>
        \A j \in 1..Len(tasker_cards) :
            RecordOfCard(j) # <<>> =>
                LET c == tasker_cards[j]
                    r == RecordOfCard(j)[1]
                IN  /\ r.two_hour_minimum \in BOOLEAN
                    /\ r.elite_status \in BOOLEAN
                    /\ r.two_hour_minimum <=>
                         (MinimumIn(c.text) \/ MinimumIn(c.html)
                            \/ DisplayedMatch(c.minElems))
                    /\ r.elite_status <=>
                         (EliteIn(c.text) \/ EliteIn(c.html)
                            \/ DisplayedMatch(c.eliteElems))

\* the records the containers give when each is processed on a page of its
\* own, one after the other
RECURSIVE EachAlone(_)
EachAlone(cards) ==
    IF cards = <<>> THEN <<>>
    ELSE ProcessCards(<<Head(cards)>>) \o EachAlone(Tail(cards))

\* C29: errors are isolated per container: each processed container yields
\* one record or none, and the records of a page are those its containers
\* yield one by one, in order, so that an exception raised while one is
\* processed neither removes a record collected before it nor keeps a later
\* container from being processed.
C29_ErrorsIsolatedPerContainer ==
    taskers # <<>> =>
        /\ \A j \in 1..Len(tasker_cards) :
              Len(ProcessCards(<<tasker_cards[j]>>)) <= 1
        /\ taskers[1] = EachAlone(tasker_cards)

\* of three containers the second went stale, gave its record without a rate
\* and raised into the handler of the per-card try; the first and the third
\* gave their records
C29_Witness ==
    /\ taskers # <<>>
    /\ Len(tasker_cards) = 3
    /\ tasker_cards[1].staleAt = "never"
    /\ RaisesAtLog(tasker_cards[2])
    /\ tasker_cards[3].staleAt = "never"
    /\ Len(taskers[1]) = 3
    /\ taskers[1][2].hourly_rate = RATE_NOT_FOUND
    /\ taskers[1][3] = ProcessCard(tasker_cards[3])[1]

(***************************************************************************)
(* Page walker: extract_tasker_data and navigate_to_page_number            *)
(*                                                                         *)
(* The browser is the environment: what a click does to the document is    *)
(* chosen from Effects, and whether a further clickable button exists for  *)
(* the requested page is chosen by which action is taken.                  *)
(***************************************************************************)
\* most clickable buttons one branch of navigate_to_page_number finds
MaxButtons == 1

\* what a click can do: raise, nothing, load the page without touching the
\* address, load the page and put page=k in the address
Effects == {"raises", "none", "loads", "loads_url"}

\* documents a walk can meet: records, no container, containers that give
\* no record, other records
WalkPages ==
    << PageOf(3, 1, 6), <<>>, <<CardLabel, CardNameless>>, <<CardMarkup>> >>

\* the resolved list, were an empty one kept as it is
available_pages_or_single_as_is(r) == r

\* "if not available_pages: available_pages = [1]" (scraper.py:21-23)
available_pages_or_single(r) == IF r = <<>> THEN <<1>> ELSE r

\* the index processed after a skipped one, were a failed navigation to
\* end the loop
IndexAfterSkip_abort(i, n) == n + 1

\* "continue" after a failed navigation (scraper.py:34-36)
IndexAfterSkip(i, n) == i + 1

\* the index processed after a collected one, were an empty page to end
\* the loop
IndexAfterCollect_break(i, n, page_taskers) ==
    IF page_taskers = <<>> THEN n + 1 ELSE i + 1

\* "continue" on an empty page, else extend and go on (scraper.py:45-50)
IndexAfterCollect(i, n, page_taskers) == i + 1

\* the list the page loop iterates, were it resolved anew on the document
\* loaded at the end of an iteration
available_pages_in_loop_reresolved(pages, mui, links, texts, mp) ==
    available_pages_or_single(get_available_page_numbers(mui, links, texts, mp))

\* "for page_num in available_pages" (scraper.py:28): the list bound before
\* the loop is iterated, whatever control the loaded document shows
available_pages_in_loop(pages, mui, links, texts, mp) == pages

\* the pagination control of the loaded document: page 1 shows the control
\* the walk started on, a later page p the MUI buttons 1..p and no links
CurrentMui ==
    IF docPage = 1 THEN muiLists
    ELSE << [i \in 1..docPage |-> Elem(i, NoNum)] >>
CurrentLinks == IF docPage = 1 THEN linkLists ELSE <<>>
CurrentTexts == IF docPage = 1 THEN textLists ELSE <<>>

\* the decimal digits of n >= 0
RECURSIVE Digits(_)
Digits(n) == IF n < 10 THEN <<n>> ELSE Digits(n \div 10) \o <<n % 10>>

\* f"page={page_num}" in current_url, the address holding page=u or no
\* page parameter (scraper.py:643, 654, 660)
UrlCarries(u, k) ==
    /\ u # NoNum
    /\ Len(Digits(k)) <= Len(Digits(u))
    /\ SubSeq(Digits(u), 1, Len(Digits(k))) = Digits(k)

\* a selected page button with text k is found (scraper.py:635-639, 667-671)
SelectedIs(d, k) == d = k

\* the document after a click on a control for page k had effect e;
\* p is the content the site serves
AfterClick(e, k, p, d) ==
    IF e = "loads" THEN [page |-> k, url |-> d.url, found |-> Located(p, 1)]
    ELSE IF e = "loads_url"
    THEN [page |-> k, url |-> k, found |-> Located(p, 1)]
    ELSE d

Show(d) ==
    /\ docPage' = d.page
    /\ urlPage' = d.url
    /\ found' = d.found

\* what one iteration of the page loop did
Visit(k, how, recs, got) ==
    [page |-> k, nav |-> how, shown |-> docPage, records |-> recs,
     collected |-> got]

WalkDocs ==
    { << NoMui, NoLinks, <<>> >>,
      << << <<Elem(1, NoNum), Elem(2, NoNum), Elem(3, NoNum)>> >>,
         <<>>, <<>> >>,
      << << <<Elem(0, NoNum), Elem(1, NoNum)>> >>, <<>>, <<>> >>,
      << <<>>, << <<Elem(NoNum, 2), Elem(NoNum, 3)>> >>, <<>> >>,
      << <<>>, <<>>, SomeTexts >> }

WalkInit ==
    /\ \E d \in WalkDocs, mp \in {0, MaxLimit} : DocStart(d, mp)
    /\ pagesS = <<>>
    /\ pagesP = <<>>
    /\ \E i \in 1..Len(WalkPages) : ViewStart(Located(WalkPages[i], 1))
    /\ tasker_cards = <<>>
    /\ taskers = <<>>
    /\ NameStart(<<>>)
    /\ WalkIdle
    /\ RunIdle

\* scraper.py:17-25: the one call of get_available_page_numbers
Start ==
    /\ wpc = "start"
    /\ \E r \in {get_available_page_numbers(CurrentMui, CurrentLinks,
                                             CurrentTexts, max_pages)} :
           /\ pagesS' = Append(pagesS, r)
           /\ available_pages' = available_pages_or_single(r)
    /\ idx' = 1
    /\ wpc' = "loop"
    /\ UNCHANGED <<nav, all_taskers, tries, trace>>
    /\ UNCHANGED <<nameVars, docVars, pagesP, collVars, runVars>>

\* scraper.py:28-33: the next page_num; navigate only if it exceeds 1
BeginPage ==
    /\ wpc = "loop"
    /\ idx <= Len(available_pages)
    /\ wpc' = IF available_pages[idx] > 1 THEN "nav_mui" ELSE "collect"
    /\ nav' = "not_requested"
    /\ tries' = 0
    /\ UNCHANGED <<available_pages, idx, all_taskers, trace>>
    /\ UNCHANGED <<nameVars, pageVars, collVars, runVars>>

\* scraper.py:618-680: one clickable, not selected MUI button for page_num:
\* JavaScript click and its verification, then the regular click and its
\* verification; unverified, the next button is tried
NavMuiButton ==
    /\ wpc = "nav_mui"
    /\ tries < MaxButtons
    /\ \E js \in Effects, click \in Effects, i \in 1..Len(WalkPages) :
        LET k == available_pages[idx]
            d0 == [page |-> docPage, url |-> urlPage, found |-> found]
            d1 == AfterClick(js, k, WalkPages[i], d0)
            d2 == AfterClick(click, k, WalkPages[i], d1)
        IN  IF js # "raises" /\ (SelectedIs(d1.page, k) \/ UrlCarries(d1.url, k))
            THEN /\ Show(d1)
                 /\ nav' = "verified"
                 /\ wpc' = "collect"
                 /\ tries' = 0
            ELSE IF click = "raises"
            THEN /\ Show(d1)
                 /\ tries' = tries + 1
                 /\ UNCHANGED <<nav, wpc>>
            ELSE IF UrlCarries(d2.url, k) \/ SelectedIs(d2.page, k)
            THEN /\ Show(d2)
                 /\ nav' = "verified"
                 /\ wpc' = "collect"
                 /\ tries' = 0
            ELSE /\ Show(d2)
                 /\ tries' = tries + 1
                 /\ UNCHANGED <<nav, wpc>>
    /\ UNCHANGED <<available_pages, idx, all_taskers, trace>>
    /\ UNCHANGED <<nameVars, pageVars, tasker_cards, taskers, runVars>>

\* scraper.py:616-684: no (further) clickable MUI button: on to the links
NavMuiNone ==
    /\ wpc = "nav_mui"
    /\ wpc' = "nav_link"
    /\ tries' = 0
    /\ UNCHANGED <<nav, available_pages, idx, all_taskers, trace>>
    /\ UNCHANGED <<nameVars, pageVars, collVars, runVars>>

\* scraper.py:695-717: the first clickable link for page_num is clicked and
\* True is returned; a click that raises moves on to the next selector
NavLinkClick ==
    /\ wpc = "nav_link"
    /\ tries < MaxButtons
    /\ \E click \in Effects, i \in 1..Len(WalkPages) :
        LET k == available_pages[idx]
            d0 == [page |-> docPage, url |-> urlPage, found |-> found]
        IN  IF click = "raises"
            THEN /\ tries' = tries + 1
                 /\ UNCHANGED <<nav, wpc, viewVars>>
            ELSE /\ Show(AfterClick(click, k, WalkPages[i], d0))
                 /\ nav' = "clicked"
                 /\ wpc' = "collect"
                 /\ tries' = 0
    /\ UNCHANGED <<available_pages, idx, all_taskers, trace>>
    /\ UNCHANGED <<nameVars, pageVars, tasker_cards, taskers, runVars>>

\* scraper.py:718-719 and 34-36: no clickable link either: False is
\* returned and the page is skipped
NavFail ==
    /\ wpc = "nav_link"
    /\ nav' = "failed"
    /\ trace' = Append(trace, Visit(available_pages[idx], "failed", <<>>, FALSE))
    /\ idx' = IndexAfterSkip(idx, Len(available_pages))
    /\ wpc' = "loop"
    /\ tries' = 0
    /\ available_pages' = available_pages_in_loop(available_pages,
           CurrentMui, CurrentLinks, CurrentTexts, max_pages)
    /\ UNCHANGED all_taskers
    /\ UNCHANGED <<nameVars, pageVars, collVars, runVars>>

\* scraper.py:43-50: the loaded document is collected
Collect ==
    /\ wpc = "collect"
    /\ \E page_taskers \in {extract_taskers_from_current_page(found)} :
           /\ tasker_cards' = CapCards(DiscoverCards(found))
           /\ taskers' = <<page_taskers>>
           /\ all_taskers' = all_taskers \o page_taskers
           /\ trace' = Append(trace, Visit(available_pages[idx], nav,
                                           page_taskers, TRUE))
           /\ idx' = IndexAfterCollect(idx, Len(available_pages), page_taskers)
    /\ wpc' = "loop"
    /\ available_pages' = available_pages_in_loop(available_pages,
           CurrentMui, CurrentLinks, CurrentTexts, max_pages)
    /\ UNCHANGED <<nav, tries>>
    /\ UNCHANGED <<nameVars, pageVars, viewVars, runVars>>

\* scraper.py:65-66, 73, 84: reading driver.current_url or driver.title, or
\* locating the containers, raises; no handler is around these lines and
\* none in extract_tasker_data, so the exception leaves the walk
CollectRaises ==
    /\ wpc = "collect"
    /\ wpc' = "raised"
    /\ UNCHANGED <<nav, available_pages, idx, all_taskers, tries, trace>>
    /\ UNCHANGED <<nameVars, pageVars, collVars, runVars>>

\* scraper.py:52-53
Return ==
    /\ wpc = "loop"
    /\ idx > Len(available_pages)
    /\ wpc' = "done"
    /\ UNCHANGED <<nav, available_pages, idx, all_taskers, tries, trace>>
    /\ UNCHANGED <<nameVars, pageVars, collVars, runVars>>

WalkNext ==
    \/ Start
    \/ BeginPage
    \/ NavMuiButton
    \/ NavMuiNone
    \/ NavLinkClick
    \/ NavFail
    \/ Collect
    \/ CollectRaises
    \/ Return

SpecWalk == WalkInit /\ [][WalkNext]_vars

(***************************************************************************)
(* Claims about the page walker                                            *)
(***************************************************************************)
\* what the resolver returns on the control the walk started on
Resolved ==
    get_available_page_numbers(muiLists, linkLists, textLists, max_pages)

RECURSIVE RecordsOf(_)
RecordsOf(t) ==
    IF t = <<>> THEN <<>> ELSE Head(t).records \o RecordsOf(Tail(t))

\* C3: when the pagination lookup finds nothing, the walk processes the page
\* list [1]: the loaded page is collected once, no navigation is requested.
C3_UnpaginatedIsSinglePage ==
    (wpc # "start" /\ Resolved = <<>>) =>
        /\ available_pages = <<1>>
        /\ wpc \notin {"nav_mui", "nav_link"}
        /\ Len(trace) <= 1
        /\ wpc = "done" =>
            /\ Len(trace) = 1
            /\ trace[1].page = 1
            /\ trace[1].collected
            /\ trace[1].nav = "not_requested"
            /\ all_taskers = extract_taskers_from_current_page(found)

\* an unpaginated walk finished with the records of its one page
C3_Witness ==
    /\ wpc = "done"
    /\ Resolved = <<>>
    /\ Len(trace) = 1
    /\ trace[1].collected
    /\ all_taskers # <<>>

\* C4: the result is the concatenation, in resolved-list order, of the
\* records of every page reached; a page with zero records does not end the
\* walk, nothing is deduplicated.
C4_ResultIsConcatenation ==
    /\ all_taskers = RecordsOf(trace)
    /\ wpc = "done" =>
        /\ Len(trace) = Len(available_pages)
        /\ \A j \in 1..Len(trace) : trace[j].page = available_pages[j]

\* three pages, the second gave no record, the result has N1 + N3 records
C4_Witness ==
    /\ wpc = "done"
    /\ Len(trace) = 3
    /\ \A j \in 1..3 : trace[j].collected
    /\ trace[1].records # <<>>
    /\ trace[2].records = <<>>
    /\ trace[3].records # <<>>
    /\ Len(all_taskers) = Len(trace[1].records) + Len(trace[3].records)

\* the iteration in which navigate_to_page_number returned False
SkipStep == wpc = "nav_link" /\ wpc' = "loop"

\* C5: a failed navigation skips only its index: nothing is collected for
\* it, the accumulator is unchanged, the next index is taken up, and every
\* index of the list is attempted by the time the walk returns.
C5_FailedNavigationSkipsOne ==
    /\ [][SkipStep =>
            /\ all_taskers' = all_taskers
            /\ UNCHANGED <<tasker_cards, taskers>>
            /\ idx' = idx + 1
            /\ ~trace'[Len(trace')].collected]_vars
    /\ [](wpc = "done" => Len(trace) = Len(available_pages))

\* a navigation failed, and a later page of the same walk gave records
C5_Witness ==
    /\ wpc = "done"
    /\ \E j \in 1..Len(trace) :
        /\ trace[j].nav = "failed"
        /\ \E l \in (j + 1)..Len(trace) :
            trace[l].collected /\ trace[l].records # <<>>

\* C14: the page list is resolved once, on the first page, before any
\* navigation or collection, and never changes afterwards: the indices
\* visited and their order are those of that one resolution, whatever
\* control later pages show.
C14_ResolvedOnceAndFixed ==
    /\ [](wpc = "start" =>
            (pagesS = <<>> /\ trace = <<>> /\ docPage = 1 /\ urlPage = NoNum))
    /\ [](wpc # "start" =>
            /\ Len(pagesS) = 1
            /\ pagesS[1] = Resolved
            /\ available_pages = available_pages_or_single(pagesS[1]))
    /\ [][wpc # "start" => available_pages' = available_pages]_vars
    /\ [](wpc = "done" =>
            \A j \in 1..Len(trace) :
                trace[j].page = available_pages_or_single(Resolved)[j])

\* the walk finished on a later page whose control resolves to another list
C14_Witness ==
    /\ wpc = "done"
    /\ docPage # 1
    /\ Len(trace) >= 2
    /\ get_available_page_numbers(CurrentMui, CurrentLinks, CurrentTexts,
                                  max_pages) # available_pages
    /\ Len(pagesS) = 1

\* the walk has left every position from which it can take a step
WalkStopped == wpc \notin {"start", "loop", "nav_mui", "nav_link", "collect"}

\* C15 as stated: every walk ends with every resolved index processed
\* once, in list order, collected or skipped, and the accumulated list
\* returned, whatever the outcomes of navigation and collection.
\* Refuted: a collection that raises ends the walk without a return.
C15_WalkCompletes ==
    WalkStopped =>
        /\ wpc = "done"
        /\ Len(trace) = Len(available_pages)
        /\ \A j \in 1..Len(trace) : trace[j].page = available_pages[j]

\* C16 as stated: whichever collaborator call fails, extract_tasker_data
\* propagates no exception.
\* Refuted: current_url, title and find_elements are read outside any
\* handler at the head of extract_taskers_from_current_page.
C16_NoExceptionLeavesTheWalk == wpc # "raised"

\* the step that takes up the next index of the list
TakesUpIndex == wpc = "loop" /\ wpc' \in {"nav_mui", "collect"}

\* C18 as stated: navigation is requested exactly when the index differs
\* from the page that is loaded, and no index is collected while another
\* page is displayed.
\* Refuted: navigation is requested exactly when the index exceeds 1, and a
\* link click is not verified.
C18_NavigateIffOtherPageLoaded ==
    /\ [][TakesUpIndex =>
            ((wpc' = "nav_mui") <=> (available_pages[idx] # docPage))]_vars
    /\ [](\A j \in 1..Len(trace) :
            trace[j].collected => trace[j].shown = trace[j].page)

\* C6: a page k > 1 is collected only after the document was observed to be
\* on page k (selected indicator or address).  Refuted: the link branch
\* returns True right after the click.
C6_ArrivalVerifiedBeforeCollect ==
    \A j \in 1..Len(trace) :
        (trace[j].collected /\ trace[j].page > 1) => trace[j].nav = "verified"

\* C8: every record of the result has a name that passes
\* is_valid_person_name and is not the placeholder; a processed container
\* gives a record exactly when its name does.
C8_RecordsHaveValidNames ==
    /\ \A j \in 1..Len(all_taskers) :
        /\ all_taskers[j].name # NAME_NOT_FOUND
        /\ is_valid_person_name(all_taskers[j].name)
    /\ taskers # <<>> =>
        Len(taskers[1]) =
            Cardinality({ j \in 1..Len(tasker_cards) :
                /\ ExtractName(tasker_cards[j]) # NAME_NOT_FOUND
                /\ is_valid_person_name(ExtractName(tasker_cards[j])) })

\* a collected page held a container with a rate whose name passes only the
\* loose check; the page gave records, none of them for that container
C8_Witness ==
    /\ wpc = "done"
    /\ taskers # <<>>
    /\ taskers[1] # <<>>
    /\ \E j \in 1..Len(tasker_cards) :
        /\ ExtractName(tasker_cards[j]) # NAME_NOT_FOUND
        /\ ~is_valid_person_name(ExtractName(tasker_cards[j]))
        /\ ExtractRate(tasker_cards[j]) # RATE_NOT_FOUND
    /\ Len(taskers[1]) < Len(tasker_cards)

(***************************************************************************)
(* Claims about the shape of the resolved page list                        *)
(***************************************************************************)

StrictlyAscending(l) == \A i \in 1..(Len(l) - 1) : l[i] < l[i + 1]

\* C19: the page list returned by get_available_page_numbers is strictly
\* ascending (hence free of duplicates) and made only of integers greater
\* than or equal to 1, whatever the labels of the visible controls and the
\* page parameters of the links are.
C19_AscendingPositivePages ==
    \A i \in 1..Len(pagesS) :
        /\ StrictlyAscending(pagesS[i])
        /\ \A k \in 1..Len(pagesS[i]) : pagesS[i][k] >= 1

\* C27 as stated: for every pagination control and every max_pages the
\* module function scraper.get_available_page_numbers and the method
\* TaskRabbitParser.get_available_page_numbers return the same page list.
\* Refuted: the method does not apply max_pages to an enumerated control
\* without elision.
C27_ResolversAgree ==
    (pagesS # <<>> /\ pagesP # <<>>) => pagesS = pagesP

(***************************************************************************)
(* The category runner: run_all_categories, run_parser_for_category, run   *)
(***************************************************************************)

\* the keys of taskrabbit/categories.py, in the order of the dict
CLI_CATEGORIES ==
    <<"furniture_assembly", "plumbing", "electrical", "door_repair",
      "sealing_caulking", "appliance_installation", "flooring_tiling",
      "wall_repair", "window_blinds_repair", "smart_home",
      "interior_painting">>

\* the keys of CATEGORIES in taskrabbit_parser.py, in the order of the dict
PARSER_CATEGORIES == <<"furniture_assembly", "plumbing">>

\* the dict run_all_categories iterates
CATEGORIES == IF entry = "cli" THEN CLI_CATEGORIES ELSE PARSER_CATEGORIES

Keys(d) == {d[i] : i \in 1..Len(d)}

\* TaskRabbitParser.__init__ accepts the keys of its own module's dict only
Supported(category) == category \in Keys(PARSER_CATEGORIES)

\* parser.csv_filename, "Taskers/<name>_<timestamp>.csv": the directory and
\* the category it is derived from (the timestamp is not represented)
csv_filename(category) == <<"Taskers", category>>

\* results[category] = value
SetResult(res, category, value) ==
    [k \in DOMAIN res \cup {category} |->
        IF k = category THEN value ELSE res[k]]

\* the except branch, which loses the entry instead of recording None
results_on_exception_dropped(res, category) == res

\* the except branch of the loop: results[category] = None
results_on_exception(res, category) == SetResult(res, category, None)

\* the category the loop is about to run
Current == CATEGORIES[cat + 1]

RunInit ==
    /\ entry \in {"cli", "parser"}
    /\ rpc = "loop"
    /\ cat = 0
    /\ results = NoResults
    /\ saved = {}
    /\ NameStart(<<>>)
    /\ PagesIdle
    /\ CollectIdle
    /\ WalkIdle

\* one iteration: run() collected records and saved them; the path is
\* returned and stored
RunSaved ==
    /\ rpc = "loop"
    /\ cat < Len(CATEGORIES)
    /\ Supported(Current)
    /\ saved' = saved \cup {csv_filename(Current)}
    /\ results' = SetResult(results, Current, Some(csv_filename(Current)))
    /\ cat' = cat + 1
    /\ UNCHANGED <<entry, rpc>>
    /\ UNCHANGED <<nameVars, pageVars, collVars, walkVars>>

\* one iteration: the walk returned no record, run() logs "No taskers
\* found!" and returns; the path is returned and stored all the same
RunNoTaskers ==
    /\ rpc = "loop"
    /\ cat < Len(CATEGORIES)
    /\ Supported(Current)
    /\ results' = SetResult(results, Current, Some(csv_filename(Current)))
    /\ cat' = cat + 1
    /\ UNCHANGED <<entry, rpc, saved>>
    /\ UNCHANGED <<nameVars, pageVars, collVars, walkVars>>

\* one iteration: a step of run() raised, run() re-raises, the loop catches
RunRaises ==
    /\ rpc = "loop"
    /\ cat < Len(CATEGORIES)
    /\ Supported(Current)
    /\ results' = results_on_exception(results, Current)
    /\ cat' = cat + 1
    /\ UNCHANGED <<entry, rpc, saved>>
    /\ UNCHANGED <<nameVars, pageVars, collVars, walkVars>>

\* one iteration: the constructor raises ValueError for a key that the
\* dict of taskrabbit_parser.py does not have, the loop catches
RunUnsupported ==
    /\ rpc = "loop"
    /\ cat < Len(CATEGORIES)
    /\ ~Supported(Current)
    /\ results' = results_on_exception(results, Current)
    /\ cat' = cat + 1
    /\ UNCHANGED <<entry, rpc, saved>>
    /\ UNCHANGED <<nameVars, pageVars, collVars, walkVars>>

\* the loop is exhausted: return results
RunReturn ==
    /\ rpc = "loop"
    /\ cat = Len(CATEGORIES)
    /\ rpc' = "returned"
    /\ UNCHANGED <<entry, cat, results, saved>>
    /\ UNCHANGED <<nameVars, pageVars, collVars, walkVars>>

RunNext ==
    \/ RunSaved
    \/ RunNoTaskers
    \/ RunRaises
    \/ RunUnsupported
    \/ RunReturn

SpecRun == RunInit /\ [][RunNext]_vars

(***************************************************************************)
(* Claims about the category runner                                        *)
(***************************************************************************)

\* the step is a loop iteration in which the run of category c failed
FailsOn(c) ==
    /\ rpc = "loop"
    /\ cat < Len(CATEGORIES)
    /\ c = Current
    /\ RunRaises \/ RunUnsupported

\* C17: run_all_categories returns a mapping with exactly one entry per
\* configured category; an iteration whose run raises records None for that
\* category, keeps the entries made so far, and the loop goes on with the
\* next category, so that no return happens before every category was run.
C17_OneEntryPerCategory ==
    /\ [](rpc = "returned" =>
            /\ DOMAIN results = Keys(CATEGORIES)
            /\ cat = Len(CATEGORIES))
    /\ [](DOMAIN results = {CATEGORIES[i] : i \in 1..cat})
    /\ [][\A c \in Keys(CATEGORIES) : FailsOn(c) =>
            /\ c \in DOMAIN results'
            /\ results'[c] = None
            /\ \A k \in DOMAIN results : k \in DOMAIN results'
                                         /\ results'[k] = results[k]
            /\ cat' = cat + 1
            /\ rpc' = "loop"]_vars

\* the run of the first category failed, the second one was run and stored
\* its path, and the mapping was returned
C17_Witness ==
    /\ rpc = "returned"
    /\ results[CATEGORIES[1]] = None
    /\ results[CATEGORIES[2]] # None

\* C30 as stated: a category mapped to a path that is not None had its file
\* written: run() called save_to_csv on that path.
\* Refuted: run() returns normally when the walk found no record, without
\* saving, and run_parser_for_category returns csv_filename all the same.
C30_ReportedPathWasSaved ==
    \A c \in DOMAIN results :
        results[c] # None => results[c][1] \in saved


====
